---- MODULE Spec2Model ----
(***************************************************************************)
(* Incipit Genie: endnote -> incipit-note conversion (document_processor), *)
(* incipit phrase extraction (incipit_extractor) and URL -> hyperlink      *)
(* promotion (link_activator).                                             *)
(*                                                                         *)
(* Text is a sequence of one-character strings.  Positions handed around   *)
(* by the operators below are 0-based, as in the Python source; -1 is      *)
(* "not found" and the empty sequence stands for None / "" (both falsy).   *)
(***************************************************************************)
EXTENDS Integers, Sequences, FiniteSets, TLC

(***************************************************************************)
(* Characters                                                              *)
(***************************************************************************)
\* U+2014, U+201C, U+201D, U+2018, U+2019 (one character each)
EmDash == "<emdash>"
LDQuo == "<ldquo>"
RDQuo == "<rdquo>"
LSQuo == "<lsquo>"
RSQuo == "<rsquo>"
DQ == "\""
SQ == "'"

LowerSeq == <<"a","b","c","d","e","f","g","h","i","j","k","l","m",
              "n","o","p","q","r","s","t","u","v","w","x","y","z">>
UpperSeq == <<"A","B","C","D","E","F","G","H","I","J","K","L","M",
              "N","O","P","Q","R","S","T","U","V","W","X","Y","Z">>
LowerSet == {LowerSeq[i] : i \in 1..26}
UpperSet == {UpperSeq[i] : i \in 1..26}
DigitSet == {"0","1","2","3","4","5","6","7","8","9"}
Letters == LowerSet \cup UpperSet
\* regex \w
WordChars == Letters \cup DigitSet \cup {"_"}
\* regex \s, str.split(), str.strip()
Spaces == {" ", "\t", "\n"}
\* string.punctuation (the grave accent, which no text of the model holds, left out)
AsciiPunct == {"!", DQ, "#", "$", "%", "&", SQ, "(", ")", "*", "+", ",", "-",
               ".", "/", ":", ";", "<", "=", ">", "?", "@", "[", "\\", "]",
               "^", "_", "{", "|", "}", "~"}

IsSpace(c) == c \in Spaces
IsLetter(c) == c \in Letters
IsWordChar(c) == c \in WordChars
islower(c) == c \in LowerSet
lower(c) == IF c \in UpperSet THEN LowerSeq[CHOOSE i \in 1..26 : UpperSeq[i] = c] ELSE c
upper(c) == IF c \in LowerSet THEN UpperSeq[CHOOSE i \in 1..26 : LowerSeq[i] = c] ELSE c

(***************************************************************************)
(* Python str operations                                                   *)
(***************************************************************************)
MinOf(S) == CHOOSE x \in S : \A y \in S : x <= y
MaxOf(S) == CHOOSE x \in S : \A y \in S : x >= y

\* s[a:b] for 0 <= a
Slice(s, a, b) == SubSeq(s, a + 1, IF b > Len(s) THEN Len(s) ELSE b)
\* s[a:]
From(s, a) == SubSeq(s, a + 1, Len(s))
\* s[-n:] if len(s) > n else s
LastN(s, n) == IF Len(s) > n THEN SubSeq(s, Len(s) - n + 1, Len(s)) ELSE s
\* s.find(c)
find(s, c) ==
    LET I == {i \in 1..Len(s) : s[i] = c}
    IN  IF I = {} THEN -1 ELSE MinOf(I) - 1
\* s.rfind(c, 0, hi)
rfind(s, c, hi) ==
    LET I == {i \in 1..Len(s) : i <= hi /\ s[i] = c}
    IN  IF I = {} THEN -1 ELSE MaxOf(I) - 1
\* s.find(c, lo): first index >= lo
findFrom(s, c, lo) ==
    LET I == {i \in (lo + 1)..Len(s) : s[i] = c}
    IN  IF I = {} THEN -1 ELSE MinOf(I) - 1
lstripSet(s, T) ==
    LET I == {i \in 1..Len(s) : s[i] \notin T}
    IN  IF I = {} THEN <<>> ELSE SubSeq(s, MinOf(I), Len(s))
rstripSet(s, T) ==
    LET I == {i \in 1..Len(s) : s[i] \notin T}
    IN  IF I = {} THEN <<>> ELSE SubSeq(s, 1, MaxOf(I))
rstrip(s) == rstripSet(s, Spaces)
strip(s) == lstripSet(rstripSet(s, Spaces), Spaces)
\* s.split(): the maximal runs of non-whitespace, in order
split(s) ==
    LET starts == {i \in 1..Len(s) : ~IsSpace(s[i]) /\ (i = 1 \/ IsSpace(s[i - 1]))}
        endOf(i) == MinOf({j \in i..Len(s) : j = Len(s) \/ IsSpace(s[j + 1])})
        kth(k) == CHOOSE i \in starts : Cardinality({j \in starts : j < i}) = k - 1
    IN  [k \in 1..Cardinality(starts) |-> SubSeq(s, kth(k), endOf(kth(k)))]
wordCount(s) ==
    Cardinality({i \in 1..Len(s) : ~IsSpace(s[i]) /\ (i = 1 \/ IsSpace(s[i - 1]))})
\* str.join with one space
RECURSIVE join(_)
join(words) ==
    IF Len(words) = 0 THEN <<>>
    ELSE IF Len(words) = 1 THEN words[1]
    ELSE words[1] \o <<" ">> \o join(Tail(words))
\* a in b (substring test)
contains(b, a) ==
    \E i \in 0..(Len(b) - Len(a)) : SubSeq(b, i + 1, i + Len(a)) = a
endswith(s, c) == Len(s) > 0 /\ s[Len(s)] = c
mapSeq(s, F(_)) == [i \in 1..Len(s) |-> F(s[i])]
filterSeq(s, T) == SelectSeq(s, LAMBDA c : c \notin T)

None == <<>>
See == <<"S", "e", "e">>

(***************************************************************************)
(* incipit_extractor.py                                                    *)
(***************************************************************************)
MIN_WORDS == 2
MAX_WORDS == 8
DEFAULT_WORDS == 5

\* IncipitExtractor.__init__: the clamp of word_count (0 stands for None)
target_words(word_count) ==
    IF word_count = 0 THEN DEFAULT_WORDS
    ELSE IF word_count > MAX_WORDS THEN MAX_WORDS
    ELSE IF word_count < MIN_WORDS THEN MIN_WORDS ELSE word_count

\* re.sub(r'\s+', ' ', text): every maximal run of whitespace becomes one space
collapseSpaces(s) ==
    LET keep == {i \in 1..Len(s) : ~IsSpace(s[i]) \/ i = 1 \/ ~IsSpace(s[i - 1])}
        kth(k) == CHOOSE i \in keep : Cardinality({j \in keep : j < i}) = k - 1
    IN  [k \in 1..Cardinality(keep) |-> IF IsSpace(s[kth(k)]) THEN " " ELSE s[kth(k)]]

straightQuote(c) ==
    IF c \in {LDQuo, RDQuo} THEN DQ
    ELSE IF c \in {LSQuo, RSQuo} THEN SQ ELSE c

_normalize_text(text) == strip(collapseSpaces(mapSeq(text, straightQuote)))

\* _normalize_for_comparison: lowercase, drop ASCII punctuation, collapse whitespace
_normalize_for_comparison(text) ==
    join(split(filterSeq(strip(mapSeq(text, lower)), AsciiPunct)))

firstWords(ws, n) == SubSeq(ws, 1, IF Len(ws) < n THEN Len(ws) ELSE n)

\* _is_duplicate against the set of phrases already used
_is_duplicate(incipit, used) ==
    LET normalized == _normalize_for_comparison(incipit)
    IN  \E u \in used :
          LET used_normalized == _normalize_for_comparison(u)
              norm_words == firstWords(split(normalized), 3)
              used_words == firstWords(split(used_normalized), 3)
          IN  \/ normalized = used_normalized
              \/ contains(used_normalized, normalized)
              \/ contains(normalized, used_normalized)
              \/ (Len(norm_words) >= 3 /\ Len(used_words) >= 3 /\ norm_words = used_words)

\* _extract_first_words(text, max_words)
_extract_first_words(text, max_words) ==
    LET words == split(text)
        candidate_text == join(firstWords(words, max_words + 2))
        comma_pos == find(candidate_text, ",")
    IN  IF Len(words) <= max_words THEN strip(text)
        ELSE IF /\ comma_pos > 0
                /\ wordCount(Slice(candidate_text, 0, comma_pos)) >= 3
                /\ comma_pos < Len(join(firstWords(words, max_words)))
             THEN strip(Slice(candidate_text, 0, comma_pos))
        ELSE join(firstWords(words, max_words))

\* _fallback_extraction
_fallback_extraction(context, tw) ==
    LET words == split(context)
    IN  IF Len(words) <= tw THEN strip(context) ELSE join(firstWords(words, tw))

BoundaryChars == Spaces \cup {".", ",", ";", ":"}

\* a _finalize_incipit that neither strips the boundary characters nor capitalizes
_finalize_incipit_as_given(incipit) ==
    IF incipit = None \/ Len(incipit) < 2 THEN See ELSE incipit

\* _finalize_incipit
_finalize_incipit(incipit) ==
    IF incipit = None THEN See
    ELSE LET stripped == rstripSet(lstripSet(incipit, BoundaryChars), BoundaryChars)
             capitalized == IF Len(stripped) > 0 /\ islower(stripped[1])
                            THEN <<upper(stripped[1])>> \o Tail(stripped)
                            ELSE stripped
         IN  IF Len(capitalized) < 2 THEN See ELSE capitalized

\* the first 1-based index >= i whose character is not in T (Len(s) + 1 if none)
runEnd(s, i, T) == MinOf({j \in i..(Len(s) + 1) : j = Len(s) + 1 \/ s[j] \notin T})
\* the next 1-based index > i holding c (0 if none)
nextCh(s, c, i) ==
    LET I == {j \in (i + 1)..Len(s) : s[j] = c}
    IN  IF I = {} THEN 0 ELSE MinOf(I)

\* period_pattern [.!?]["']*\s+ tried at 1-based i: match.end(), or -1
leadInPatternEnd(s, i) ==
    IF s[i] \notin {".", "!", "?"} THEN -1
    ELSE LET j == runEnd(s, i + 1, {DQ, SQ})
             k == runEnd(s, j, Spaces)
         IN  IF k > j THEN k - 1 ELSE -1

\* matches[-1].end() of period_pattern.finditer(s), 0 when there is no match
leadInSentenceStart(s) ==
    LET M == {i \in 1..Len(s) : leadInPatternEnd(s, i) >= 0}
    IN  IF M = {} THEN 0 ELSE leadInPatternEnd(s, MaxOf(M))

\* lead-in rules that always return the quotation alone
applyLeadInRules_quote_alone(lead_in, quoted_text) == <<DQ>> \o quoted_text \o <<DQ>>

\* lead-in rules that look at the length of the lead-in only
applyLeadInRules_lead_in_only(lead_in, quoted_text) ==
    IF lead_in # <<>> /\ wordCount(lead_in) <= 4
    THEN lead_in \o <<" ", DQ>> \o quoted_text \o <<DQ>>
    ELSE <<DQ>> \o quoted_text \o <<DQ>>

\* the lead-in rules of _try_quote_extraction (both branches apply the same ones)
applyLeadInRules(lead_in, quoted_text) ==
    LET lead_in_words == IF lead_in = <<>> THEN 0 ELSE wordCount(lead_in)
        quote_words == wordCount(quoted_text)
        with_lead_in == lead_in \o <<" ", DQ>> \o quoted_text \o <<DQ>>
    IN  IF quote_words <= 2 /\ lead_in # <<>> THEN with_lead_in
        ELSE IF lead_in_words <= 4 /\ lead_in # <<>> THEN with_lead_in
        ELSE <<DQ>> \o quoted_text \o <<DQ>>

\* _try_quote_extraction, first part: "quote" em-dash [clause] at the end
emDashQuote(context) ==
    LET tail == LastN(context, 250)
        em_dash_pos_in_tail == rfind(tail, EmDash, Len(tail))
        text_after_dash_in_tail == From(tail, em_dash_pos_in_tail + 1)
        em_dash_pos == Len(context) - Len(tail) + em_dash_pos_in_tail
        text_before_dash == rstrip(Slice(context, 0, em_dash_pos))
        search_region == LastN(text_before_dash, 150)
        close_quote_pos_in_region == rfind(search_region, DQ, Len(search_region))
        offset == Len(text_before_dash) - Len(search_region)
        close_quote_pos == offset + close_quote_pos_in_region
        open_quote_pos == rfind(text_before_dash, DQ, close_quote_pos)
        quoted_text == strip(Slice(text_before_dash, open_quote_pos + 1, close_quote_pos))
        sentence_start == leadInSentenceStart(Slice(text_before_dash, 0, open_quote_pos))
        lead_in == strip(Slice(text_before_dash, sentence_start, open_quote_pos))
    IN  IF /\ em_dash_pos_in_tail > 0
           /\ Len(text_after_dash_in_tail) < 100
           /\ endswith(text_before_dash, DQ)
           /\ close_quote_pos_in_region >= 0
           /\ open_quote_pos >= 0
           /\ quoted_text # <<>>
           /\ wordCount(quoted_text) >= 2
        THEN applyLeadInRules(lead_in, quoted_text)
        ELSE None

\* the text between the second and third quote of split_pattern:
\* one space, \w+(?:\s+\w+){0,4}, an optional comma, one space
splitMiddleOk(m) ==
    /\ Len(m) >= 3
    /\ m[1] = " "
    /\ m[Len(m)] = " "
    /\ LET inner == SubSeq(m, 2, Len(m) - 1)
           core == IF endswith(inner, ",") THEN SubSeq(inner, 1, Len(inner) - 1) ELSE inner
       IN  /\ core # <<>>
           /\ \A k \in 1..Len(core) : IsWordChar(core[k]) \/ IsSpace(core[k])
           /\ IsWordChar(core[1])
           /\ IsWordChar(core[Len(core)])
           /\ wordCount(core) <= 5

\* split_pattern tried at 1-based i: <<end of group 1 quote, match.end()>>, or <<0, -1>>
splitMatchAt(s, i) ==
    LET q2 == nextCh(s, DQ, i)
        q3 == IF q2 = 0 THEN 0 ELSE nextCh(s, DQ, q2)
        q4 == IF q3 = 0 THEN 0 ELSE nextCh(s, DQ, q3)
    IN  IF /\ s[i] = DQ
           /\ q2 > i + 1
           /\ q3 > 0
           /\ splitMiddleOk(SubSeq(s, q2 + 1, q3 - 1))
           /\ q4 > q3 + 1
        THEN <<q2, q4>>
        ELSE <<0, -1>>

\* the loop over split_pattern.finditer(context) from 1-based pos: the first
\* segment of the first match that ends in the last 50 characters and has
\* two words or more, or None
RECURSIVE splitFirstSegment(_, _)
splitFirstSegment(context, pos) ==
    LET M == {i \in pos..Len(context) : splitMatchAt(context, i)[2] >= 0}
        i == MinOf(M)
        m == splitMatchAt(context, i)
        first_segment == rstripSet(strip(SubSeq(context, i + 1, m[1] - 1)), {","})
    IN  IF M = {} THEN None
        ELSE IF m[2] >= Len(context) - 50 /\ wordCount(first_segment) >= 2
             THEN first_segment
        ELSE splitFirstSegment(context, m[2] + 1)

\* _try_quote_extraction, second part: the last quoted span of the last 150 characters
standardQuote(context) ==
    LET search_region == LastN(context, 150)
        last_close_quote == rfind(search_region, DQ, Len(search_region))
        offset == Len(context) - Len(search_region)
        close_quote_pos == offset + last_close_quote
        first_segment == splitFirstSegment(context, 1)
        open_quote_pos == rfind(context, DQ, close_quote_pos)
        quoted_text == strip(Slice(context, open_quote_pos + 1, close_quote_pos))
        sentence_start_pos == leadInSentenceStart(Slice(context, 0, open_quote_pos))
        lead_in == strip(Slice(context, sentence_start_pos, open_quote_pos))
    IN  IF last_close_quote = -1 THEN None
        ELSE IF first_segment # None THEN <<DQ>> \o first_segment \o <<DQ>>
        ELSE IF open_quote_pos = -1 THEN None
        ELSE IF quoted_text = <<>> THEN None
        ELSE applyLeadInRules(lead_in, quoted_text)

_try_quote_extraction(context) ==
    LET em == emDashQuote(context)
    IN  IF em # None THEN em ELSE standardQuote(context)

\* stop_words of _try_legal_case_extraction
stop_words ==
    {<<"e","s","t","a","b","l","i","s","h","e","d">>,
     <<"h","e","l","d">>,
     <<"r","u","l","e","d">>,
     <<"d","e","c","i","d","e","d">>,
     <<"f","o","u","n","d">>,
     <<"d","e","t","e","r","m","i","n","e","d">>,
     <<"c","o","n","c","l","u","d","e","d">>,
     <<"s","t","a","t","e","d">>,
     <<"s","e","t">>,
     <<"m","a","d","e">>,
     <<"i","s">>,
     <<"w","a","s">>,
     <<"h","a","s">>,
     <<"h","a","d">>,
     <<"w","h","i","c","h">>,
     <<"t","h","a","t">>,
     <<"w","h","e","r","e">>}

\* the end of group 2 of legal_case_pattern from the letter at 1-based d:
\* [A-Z][a-zA-Z]*(?:\s+[A-Z][a-zA-Z]*)* under re.IGNORECASE, greedy
RECURSIVE partyEnd(_, _)
partyEnd(s, d) ==
    LET e == runEnd(s, d, Letters)
        w == runEnd(s, e, Spaces)
    IN  IF w > e /\ w <= Len(s) /\ IsLetter(s[w]) THEN partyEnd(s, w) ELSE e - 1

\* legal_case_pattern (compiled with re.IGNORECASE) tried at 1-based i: match.end(), or -1
legalMatchEnd(s, i) ==
    LET a == runEnd(s, i, Letters)
        b == runEnd(s, a, Spaces)
        c == b + 2
        d == runEnd(s, c, Spaces)
    IN  IF /\ IsLetter(s[i])
           /\ (i = 1 \/ ~IsWordChar(s[i - 1]))
           /\ b > a
           /\ b + 1 <= Len(s)
           /\ lower(s[b]) = "v"
           /\ s[b + 1] = "."
           /\ d > c
           /\ d <= Len(s)
           /\ IsLetter(s[d])
        THEN partyEnd(s, d)
        ELSE -1

\* the words of case_name before the first stop word
RECURSIVE cleanedWords(_)
cleanedWords(words) ==
    IF words = <<>> \/ mapSeq(words[1], lower) \in stop_words THEN <<>>
    ELSE <<words[1]>> \o cleanedWords(Tail(words))

\* _try_legal_case_extraction
_try_legal_case_extraction(context) ==
    LET M == {i \in 1..Len(context) : legalMatchEnd(context, i) >= 0}
        i == MinOf(M)
        end == legalMatchEnd(context, i)
        case_name == SubSeq(context, i, end)
    IN  IF M = {} THEN None
        ELSE IF end > Len(context) - 80 THEN join(cleanedWords(split(case_name)))
        ELSE None

\* period_pattern \.["')]*\s+([A-Z]) tried at 1-based i: match.start(1), or -1
sentencePatternCap(s, i) ==
    IF s[i] # "." THEN -1
    ELSE LET j == runEnd(s, i + 1, {DQ, SQ, ")"})
             k == runEnd(s, j, Spaces)
         IN  IF k > j /\ k <= Len(s) /\ s[k] \in UpperSet THEN k - 1 ELSE -1

\* the 1-based starts of period_pattern.finditer(context)
sentenceMatches(context) == {i \in 1..Len(context) : sentencePatternCap(context, i) >= 0}

\* the boundaries list of _try_thought_unit_extraction: <<position, type>>
boundariesOf(sentence) ==
    LET em_dash_pos == find(sentence, EmDash)
        colon_pos == find(sentence, ":")
        comma_pos == find(sentence, ",")
        first_period == find(sentence, ".")
        period_pos == IF first_period > 0 /\ first_period > Len(sentence) - 5
                      THEN -1 ELSE first_period
    IN  {b \in {<<em_dash_pos, "em_dash">>, <<colon_pos, "colon">>,
                <<comma_pos, "comma">>, <<period_pos, "period">>} : b[1] > 0}

\* the boundaries the loop accepts: enough words and not a duplicate
acceptedBoundaries(sentence, used) ==
    {b \in boundariesOf(sentence) :
        LET incipit == strip(Slice(sentence, 0, b[1]))
            min_words_required == IF b[2] = "comma" THEN 3 ELSE MIN_WORDS
        IN  wordCount(incipit) >= min_words_required /\ ~_is_duplicate(incipit, used)}

\* the current sentence of _try_thought_unit_extraction
currentSentence(context) ==
    LET M == sentenceMatches(context)
        sentence_start_pos == IF M = {} THEN 0 ELSE sentencePatternCap(context, MaxOf(M))
    IN  strip(From(context, sentence_start_pos))

\* the previous sentence of _try_thought_unit_extraction (needs two matches)
previousSentence(context) ==
    LET M == sentenceMatches(context)
        last == MaxOf(M)
        prev == MaxOf(M \ {last})
        prev_sentence_start == (prev - 1) + 2
        prev_sentence_end == last - 1
    IN  strip(Slice(context, prev_sentence_start, prev_sentence_end))

\* _try_thought_unit_extraction
_try_thought_unit_extraction(context, used, tw) ==
    LET M == sentenceMatches(context)
        sentence == currentSentence(context)
        A == acceptedBoundaries(sentence, used)
        first == MinOf({b[1] : b \in A})
        fallback == _extract_first_words(sentence, tw)
        prev_sentence == previousSentence(context)
        alt_incipit == _extract_first_words(prev_sentence, tw)
    IN  IF sentence = <<>> THEN None
        ELSE IF A # {} THEN strip(Slice(sentence, 0, first))
        ELSE IF /\ _is_duplicate(fallback, used)
                /\ Cardinality(M) > 1
                /\ prev_sentence # <<>>
                /\ ~_is_duplicate(alt_incipit, used)
             THEN alt_incipit
        ELSE fallback

\* which strategy of extract_incipit yields the candidate
strategyOf(text_before_ref, used, tw) ==
    LET context == _normalize_text(text_before_ref)
    IN  IF strip(text_before_ref) = <<>> THEN "empty"
        ELSE IF _try_quote_extraction(context) # None THEN "quote"
        ELSE IF _try_legal_case_extraction(context) # None THEN "legal"
        ELSE IF _try_thought_unit_extraction(context, used, tw) # None THEN "thought"
        ELSE "fallback"

\* IncipitExtractor.extract_incipit (used = self.used_incipits, tw = self.target_words)
extract_incipit(text_before_ref, used, tw) ==
    LET context == _normalize_text(text_before_ref)
        quote == _try_quote_extraction(context)
        legal == _try_legal_case_extraction(context)
        thought == _try_thought_unit_extraction(context, used, tw)
    IN  IF strip(text_before_ref) = <<>> THEN See
        ELSE IF quote # None THEN _finalize_incipit(quote)
        ELSE IF legal # None THEN _finalize_incipit(legal)
        ELSE IF thought # None THEN _finalize_incipit(thought)
        ELSE _finalize_incipit(_fallback_extraction(context, tw))

(***************************************************************************)
(* link_activator.py: RelsManager                                          *)
(***************************************************************************)
\* A relationship id: [name |-> "rId", num |-> n] is the string rId<n>;
\* [name |-> "id", num |-> n] is the string id<n>, which does not start with rId;
\* [name |-> "rId0", num |-> n] is the string rId0<n>, a number written with a
\* leading zero.
rId(n) == [name |-> "rId", num |-> n]

\* r_id.startswith('rId') with int(r_id[3:]) not raising: int reads 07 as 7
numbered(r_id) == r_id.name \in {"rId", "rId0"}

\* len(r_id), for the numbers below 1000
idLen(r_id) ==
    (CASE r_id.name = "id" -> 2 [] r_id.name = "rId" -> 3 [] r_id.name = "rId0" -> 4)
        + (IF r_id.num < 10 THEN 1 ELSE IF r_id.num < 100 THEN 2 ELSE 3)

\* the order of the strings of one length by their first characters that
\* differ: i before r, and rId0 before rId followed by a digit that is not 0
nameRank(r_id) == CASE r_id.name = "id" -> 1 [] r_id.name = "rId0" -> 2 [] r_id.name = "rId" -> 3
HYPERLINK_TYPE == "hyperlink"

\* a Relationship element of a .rels file
Rel(id, type, target, mode) == [Id |-> id, Type |-> type, Target |-> target, TargetMode |-> mode]

\* RelsManager.__init__, before _load
EmptyRels == [relationships |-> <<>>, next_id |-> 1, url_to_rid |-> <<>>]

\* one iteration of the loop of RelsManager._load
loadRel_last_seen(rm, rel) ==
    [relationships |->
        (rel.Id :> [type |-> rel.Type, target |-> rel.Target, mode |-> rel.TargetMode])
            @@ rm.relationships,
     url_to_rid |->
        IF rel.Type = HYPERLINK_TYPE
        THEN (rel.Target :> rel.Id) @@ rm.url_to_rid
        ELSE rm.url_to_rid,
     next_id |-> IF numbered(rel.Id) THEN rel.Id.num + 1 ELSE rm.next_id]

loadRel(rm, rel) ==
    [relationships |->
        (rel.Id :> [type |-> rel.Type, target |-> rel.Target, mode |-> rel.TargetMode])
            @@ rm.relationships,
     url_to_rid |->
        IF rel.Type = HYPERLINK_TYPE
        THEN (rel.Target :> rel.Id) @@ rm.url_to_rid
        ELSE rm.url_to_rid,
     next_id |->
        IF numbered(rel.Id) /\ rel.Id.num >= rm.next_id
        THEN rel.Id.num + 1
        ELSE rm.next_id]

\* RelsManager._load over the Relationship elements of the file, in file order
RECURSIVE loadRels(_, _)
loadRels(rm, table) ==
    IF table = <<>> THEN rm ELSE loadRels(loadRel(rm, Head(table)), Tail(table))

\* The content of a file that is not well-formed XML, and of a file whose XML
\* declaration names an encoding the parser does not know
NotWellFormed == <<[tag |-> "not well-formed"]>>
UnknownEncoding == <<[tag |-> "unknown encoding"]>>

\* ET.parse: the exception it raises on a content, "" when it parses
parseError(content) ==
    IF content = NotWellFormed THEN "ParseError"
    ELSE IF content = UnknownEncoding THEN "LookupError"
    ELSE ""

\* A .rels file: [present |-> whether the file exists, table |-> its elements].
\* RelsManager._load catches ParseError and leaves the manager empty; any
\* other exception leaves _load (loadRaises).
loadRaises(file) == file.present /\ parseError(file.table) \notin {"", "ParseError"}
_load(file) ==
    IF file.present /\ parseError(file.table) = ""
    THEN loadRels(EmptyRels, file.table)
    ELSE EmptyRels

\* RelsManager.add_hyperlink: [rm |-> the manager afterwards, r_id |-> the id returned]
add_hyperlink_always_new(rm, url) ==
    [rm |-> [relationships |->
                (rId(rm.next_id) :> [type |-> HYPERLINK_TYPE, target |-> url, mode |-> "External"])
                    @@ rm.relationships,
             next_id |-> rm.next_id + 1,
             url_to_rid |-> (url :> rId(rm.next_id)) @@ rm.url_to_rid],
     r_id |-> rId(rm.next_id)]

add_hyperlink(rm, url) ==
    IF url \in DOMAIN rm.url_to_rid
    THEN [rm |-> rm, r_id |-> rm.url_to_rid[url]]
    ELSE [rm |-> [relationships |->
                     (rId(rm.next_id) :> [type |-> HYPERLINK_TYPE, target |-> url, mode |-> "External"])
                         @@ rm.relationships,
                  next_id |-> rm.next_id + 1,
                  url_to_rid |-> (url :> rId(rm.next_id)) @@ rm.url_to_rid],
          r_id |-> rId(rm.next_id)]

\* the order of sorted(..., key=lambda x: (len(x), x)) on ids: the shorter id
\* first, and ids of one length in the order of their strings
idBefore(a, b) ==
    \/ idLen(a) < idLen(b)
    \/ idLen(a) = idLen(b) /\ nameRank(a) < nameRank(b)
    \/ idLen(a) = idLen(b) /\ a.name = b.name /\ a.num < b.num

\* RelsManager.save: the file written, its elements in sorted id order
save(rm) ==
    LET ids == DOMAIN rm.relationships
        kth(k) == CHOOSE a \in ids : Cardinality({b \in ids : idBefore(b, a)}) = k - 1
    IN  [present |-> TRUE,
         table |-> [k \in 1..Cardinality(ids) |->
                      LET r == rm.relationships[kth(k)]
                      IN  Rel(kth(k), r.type, r.target, r.mode)]]

(***************************************************************************)
(* link_activator.py: LinkActivator                                        *)
(***************************************************************************)
\* A run: its properties (a set of <<name, value>>), the text of its first
\* w:t child (empty when it has none) and its other children.
Run(rPr, text, rest) == [tag |-> "r", rPr |-> rPr, text |-> text, rest |-> rest]
\* A hyperlink element with its relationship id and children
Hyperlink(r_id, children) == [tag |-> "hyperlink", r_id |-> r_id, children |-> children]

\* the characters that end a match of URL_PATTERN  https?://[^\s<>"']+
UrlStop == Spaces \cup {"<", ">", DQ, SQ}
\* url.rstrip of _process_paragraph
UrlTrailing_no_bracket == {".", ",", ";", ":", SQ, DQ}
UrlTrailing == {".", ",", ";", ":", ")", "]", SQ, DQ}

HttpScheme == <<"h","t","t","p",":","/","/">>
HttpsScheme == <<"h","t","t","p","s",":","/","/">>

startsWith(s, i, w) == i + Len(w) - 1 <= Len(s) /\ SubSeq(s, i, i + Len(w) - 1) = w
\* the first 1-based index >= i whose character is in T (Len(s) + 1 if none)
firstIn(s, i, T) == MinOf({j \in i..(Len(s) + 1) : j = Len(s) + 1 \/ s[j] \in T})

\* URL_PATTERN tried at 1-based i: match.end(), or 0 when it does not match there
urlMatchEnd(s, i) ==
    LET body == IF startsWith(s, i, HttpsScheme) THEN i + 8
                ELSE IF startsWith(s, i, HttpScheme) THEN i + 7 ELSE 0
        stop == firstIn(s, body, UrlStop)
    IN  IF body = 0 \/ stop = body THEN 0 ELSE stop - 1

\* list(URL_PATTERN.finditer(text)) from 1-based pos: [start, end] as Python gives them
RECURSIVE urlMatches(_, _)
urlMatches(text, pos) ==
    LET M == {i \in pos..Len(text) : urlMatchEnd(text, i) > 0}
        i == MinOf(M)
    IN  IF M = {} THEN <<>>
        ELSE <<[start |-> i - 1, end |-> urlMatchEnd(text, i)]>>
                 \o urlMatches(text, urlMatchEnd(text, i) + 1)

\* _create_run: a plain run with the template's properties
_create_run(text, rPr_template) == Run(rPr_template, text, <<>>)

\* _create_hyperlink_run: the template's properties except color and u, then
\* the link style
_create_hyperlink_run(url, rPr_template) ==
    Run({p \in rPr_template : p[1] \notin {"color", "u"}}
            \cup {<<"color", "0000FF">>, <<"u", "single">>},
        url, <<>>)

\* the loop over the matches of one run in _process_paragraph:
\* [new_elements, rm, processed_urls] once the text after the last URL is added
RECURSIVE splitRun(_, _, _, _, _, _, _)
splitRun(text, rPr, matches, last_end, new_elements, rm, processed_urls) ==
    IF matches = <<>>
    THEN [new_elements |->
              IF last_end < Len(text)
              THEN Append(new_elements, _create_run(From(text, last_end), rPr))
              ELSE new_elements,
          rm |-> rm,
          processed_urls |-> processed_urls]
    ELSE LET m == Head(matches)
             url == Slice(text, m.start, m.end)
             clean_url == rstripSet(url, UrlTrailing)
             trailing_punct == From(url, Len(clean_url))
             before == IF m.start > last_end
                       THEN <<_create_run(Slice(text, last_end, m.start), rPr)>>
                       ELSE <<>>
             known == clean_url \in DOMAIN processed_urls
             added == add_hyperlink(rm, clean_url)
             r_id == IF known THEN processed_urls[clean_url] ELSE added.r_id
             hyperlink == Hyperlink(r_id, <<_create_hyperlink_run(clean_url, rPr)>>)
         IN  splitRun(text, rPr, Tail(matches), m.end - Len(trailing_punct),
                      new_elements \o before \o <<hyperlink>>,
                      IF known THEN rm ELSE added.rm,
                      IF known THEN processed_urls
                      ELSE (clean_url :> r_id) @@ processed_urls)

\* the body of the loop over the children of a paragraph: the elements that
\* take the child's place, and the relationship state afterwards
RECURSIVE processChild_descending(_, _, _)
processChild_descending(child, rm, processed_urls) ==
    IF child.tag = "hyperlink" /\ child.children # <<>>
    THEN LET inner == processChild_descending(child.children[1], rm, processed_urls)
         IN  [new_elements |-> <<Hyperlink(child.r_id, inner.new_elements \o Tail(child.children))>>,
              rm |-> inner.rm, processed_urls |-> inner.processed_urls]
    ELSE IF child.tag # "r" \/ child.text = <<>> \/ urlMatches(child.text, 1) = <<>>
    THEN [new_elements |-> <<child>>, rm |-> rm, processed_urls |-> processed_urls]
    ELSE splitRun(child.text, child.rPr, urlMatches(child.text, 1), 0, <<>>, rm, processed_urls)

processChild(child, rm, processed_urls) ==
    IF child.tag # "r" \/ child.text = <<>> \/ urlMatches(child.text, 1) = <<>>
    THEN [new_elements |-> <<child>>, rm |-> rm, processed_urls |-> processed_urls]
    ELSE splitRun(child.text, child.rPr, urlMatches(child.text, 1), 0, <<>>, rm, processed_urls)

\* A paragraph element with its properties (a style name) and children
P(pPr, children) == [tag |-> "p", pPr |-> pPr, children |-> children]

\* _process_paragraph, the loop over list(para): [children, rm, processed_urls]
RECURSIVE _process_paragraph(_, _, _)
_process_paragraph(children, rm, processed_urls) ==
    IF children = <<>> THEN [children |-> <<>>, rm |-> rm, processed_urls |-> processed_urls]
    ELSE LET first == processChild(Head(children), rm, processed_urls)
             others == _process_paragraph(Tail(children), first.rm, first.processed_urls)
         IN  [children |-> first.new_elements \o others.children,
              rm |-> others.rm,
              processed_urls |-> others.processed_urls]

\* the loop over root.iter(w:p) of _process_xml_file: the paragraphs of the
\* part in document order, those inside endnote and footnote elements
\* included; elems are the elements still to visit, visited those visited
RECURSIVE processElements(_, _, _, _)
\* the loop goes on after a paragraph e, done being what _process_paragraph gave
afterParagraph(elems, visited, e, done) ==
    processElements(elems, Append(visited, [e EXCEPT !.children = done.children]),
                    done.rm, done.processed_urls)
\* the loop goes on after the paragraphs inside a note e
afterNote(elems, visited, e, done) ==
    processElements(elems, Append(visited, [e EXCEPT !.children = done.elems]),
                    done.rm, done.processed_urls)
processElements(elems, visited, rm, processed_urls) ==
    IF elems = <<>> THEN [elems |-> visited, rm |-> rm, processed_urls |-> processed_urls]
    ELSE IF Head(elems).tag = "p"
    THEN afterParagraph(Tail(elems), visited, Head(elems),
                        _process_paragraph(Head(elems).children, rm, processed_urls))
    ELSE IF Head(elems).tag \in {"endnote", "footnote"}
    THEN afterNote(Tail(elems), visited, Head(elems),
                   processElements(Head(elems).children, <<>>, rm, processed_urls))
    ELSE processElements(Tail(elems), Append(visited, Head(elems)), rm, processed_urls)

\* A part of the package: [present, body] is its XML file (body: the children
\* of w:body, w:endnotes or w:footnotes), rels its .rels file.
\* what _process_xml_file writes back: the tree and the saved relationships
writtenPart(done) == [present |-> TRUE, body |-> done.elems, rels |-> save(done.rm)]
_process_xml_file(part) ==
    writtenPart(processElements(part.body, <<>>, _load(part.rels), <<>>))

\* target_files of LinkActivator.process
PartNames == {"document", "endnotes", "footnotes"}

\* whether _process_xml_file raises on a part: ET.parse of the part raises,
\* or RelsManager(rels_path) does
partRaises(part) == parseError(part.body) # "" \/ loadRaises(part.rels)

\* LinkActivator.process on an archive that was extracted: every part that
\* exists is processed with its own .rels file; when a part raises, the
\* except clause returns docx_bytes as they were given
process_links(package) ==
    IF \E n \in PartNames : package[n].present /\ partRaises(package[n])
    THEN package
    ELSE [n \in PartNames |->
            IF package[n].present THEN _process_xml_file(package[n]) ELSE package[n]]

(***************************************************************************)
(* document_processor.py: DocumentProcessor                                *)
(***************************************************************************)
\* Elements a run can hold besides its first w:t (the rest of a Run)
wt(text) == [tag |-> "t", text |-> text]
endnoteReference(id) == [tag |-> "endnoteReference", id |-> id]
endnoteRef == [tag |-> "endnoteRef"]
fldChar(type) == [tag |-> "fldChar", fldCharType |-> type]
instrText(bookmark_name) == [tag |-> "instrText", bookmark |-> bookmark_name]
br == [tag |-> "br", type |-> "page"]

\* Children of a paragraph besides runs and hyperlinks
bookmarkStart(id, name) == [tag |-> "bookmarkStart", id |-> id, name |-> name]
bookmarkEnd(id) == [tag |-> "bookmarkEnd", id |-> id]

\* Children of the body and of the endnotes root
sectPr == [tag |-> "sectPr"]
endnote(id, children) == [tag |-> "endnote", id |-> id, children |-> children]

\* the ids of the separator notes, written [0, -1] in the source
SeparatorIds == {0, -1}

\* the bookmark name f"_IncipitRef{note_id}"
IncipitRef(note_id) == [base |-> "_IncipitRef", n |-> note_id]

\* concatenation of a sequence of sequences
RECURSIVE concat(_)
concat(ss) == IF ss = <<>> THEN <<>> ELSE Head(ss) \o concat(Tail(ss))

\* the elements of s that satisfy Test, in order
keep(s, Test(_)) == SelectSeq(s, Test)

\* _get_run_text: the texts of all the w:t elements of the run
_get_run_text(run) ==
    LET more == keep(run.rest, LAMBDA e : e.tag = "t")
    IN  run.text \o concat([i \in 1..Len(more) |-> more[i].text])

\* para.findall(.//w:r) from child k on: [run, path] in document order, the
\* path <<k>> for child k of the paragraph, <<k, j>> for child j of hyperlink k
RECURSIVE runsFrom(_, _)
runsFrom(children, k) ==
    IF k > Len(children) THEN <<>>
    ELSE LET c == children[k]
             here == IF c.tag = "r" THEN <<[run |-> c, path |-> <<k>>]>>
                     ELSE IF c.tag = "hyperlink"
                     THEN [j \in 1..Len(c.children) |-> [run |-> c.children[j], path |-> <<k, j>>]]
                     ELSE <<>>
         IN  here \o runsFrom(children, k + 1)
runsOf(para) == runsFrom(para.children, 1)

\* the text of a paragraph as both _find_endnote_references and
\* _get_extended_context_before build it
paraText(para) ==
    LET runs == runsOf(para)
    IN  concat([i \in 1..Len(runs) |-> _get_run_text(runs[i].run)])

\* body.findall(.//w:p): the paragraphs of the body, in order
paragraphsOf(body) == keep(body, LAMBDA e : e.tag = "p")

\* the loop of _get_extended_context_before from 0-based i down to lo (exclusive)
RECURSIVE extendedLoop(_, _, _, _, _)
extendedLoop(paragraphs, i, lo, context, max_chars) ==
    IF i <= lo THEN context
    ELSE LET longer == paraText(paragraphs[i + 1]) \o <<" ">> \o context
         IN  IF Len(longer) >= max_chars THEN longer
             ELSE extendedLoop(paragraphs, i - 1, lo, longer, max_chars)

\* the default of the max_chars parameter
MaxContextChars == 200

_get_extended_context_before(paragraphs, current_idx) ==
    LastN(extendedLoop(paragraphs, current_idx - 1, MaxOf({0, current_idx - 5}),
                       <<>>, MaxContextChars),
          MaxContextChars)

\* run.find(.//w:endnoteReference): the marker elements of a run
markersOf(run) == keep(run.rest, LAMBDA e : e.tag = "endnoteReference")

\* the references of one paragraph (0-based para_idx), in run order
referencesOfParagraph(paragraphs, para_idx) ==
    LET para == paragraphs[para_idx + 1]
        runs == runsOf(para)
        full_text == paraText(para)
        run_start(run_idx) ==
            Len(concat([i \in 1..run_idx |-> _get_run_text(runs[i].run)]))
        refOf(run_idx) ==
            LET markers == markersOf(runs[run_idx + 1].run)
            IN  IF markers # <<>> /\ markers[1].id \notin SeparatorIds
                THEN <<[note_id |-> markers[1].id,
                        paragraph_index |-> para_idx,
                        run_index |-> run_idx,
                        text_before |-> _get_extended_context_before(paragraphs, para_idx)
                                           \o Slice(full_text, 0, run_start(run_idx)),
                        text_after |-> From(full_text, run_start(run_idx)),
                        incipit |-> None,
                        bookmark_name |-> IncipitRef(0)]>>
                ELSE <<>>
    IN  concat([k \in 1..Len(runs) |-> refOf(k - 1)])

\* _find_endnote_references: self.references
_find_endnote_references(body) ==
    LET paragraphs == paragraphsOf(body)
    IN  concat([p \in 1..Len(paragraphs) |-> referencesOfParagraph(paragraphs, p - 1)])

\* _extract_incipits: the references with incipit and bookmark_name set; each
\* call of extract_incipit sees the incipits of the references before it
RECURSIVE extractLoop(_, _, _)
\* the body of the loop once extract_incipit has returned phrase for ref
withIncipit(ref, others, used, word_count, phrase) ==
    <<[ref EXCEPT !.incipit = phrase, !.bookmark_name = IncipitRef(ref.note_id)]>>
        \o extractLoop(others, used \cup {phrase}, word_count)
extractLoop(references, used, word_count) ==
    IF references = <<>> THEN <<>>
    ELSE withIncipit(Head(references), Tail(references), used, word_count,
                     extract_incipit(Head(references).text_before, used,
                                     target_words(word_count)))
_extract_incipits(references, word_count) == extractLoop(references, {}, word_count)

\* the strategy that gave each reference its incipit, in reference order
RECURSIVE strategiesLoop(_, _, _)
strategiesLoop(references, used, word_count) ==
    IF references = <<>> THEN <<>>
    ELSE LET ref == Head(references)
         IN  <<strategyOf(ref.text_before, used, target_words(word_count))>>
                 \o strategiesLoop(Tail(references), used \cup {ref.incipit}, word_count)

\* _extract_endnote_content_with_runs: [content, content_runs]
_extract_endnote_content_with_runs(note) ==
    LET paras == keep(note.children, LAMBDA e : e.tag = "p")
        all == concat([p \in 1..Len(paras) |->
                          [i \in 1..Len(runsOf(paras[p])) |-> runsOf(paras[p])[i].run]])
        runs == keep(all, LAMBDA r : keep(r.rest, LAMBDA e : e.tag = "endnoteRef") = <<>>)
    IN  [content |-> strip(concat([i \in 1..Len(runs) |-> _get_run_text(runs[i])])),
         content_runs |-> runs]

\* _read_endnotes: self.endnotes, a later note of one id replacing an earlier
RECURSIVE readLoop(_, _)
readLoop(notes, endnotes) ==
    IF notes = <<>> THEN endnotes
    ELSE LET note == Head(notes)
         IN  readLoop(Tail(notes),
                      IF note.id \notin SeparatorIds
                      THEN (note.id :> _extract_endnote_content_with_runs(note)) @@ endnotes
                      ELSE endnotes)
_read_endnotes(endnotes_body) ==
    readLoop(keep(endnotes_body, LAMBDA e : e.tag = "endnote"), <<>>)

\* the start of bookmark_counter
FirstBookmarkId == 1000

\* _insert_bookmark_before_run for the run at path: [children, counter]; a run
\* that is not a child of the paragraph itself gets no bookmark
_insert_bookmark_before_run(children, path, bookmark_name, counter) ==
    IF Len(path) # 1 THEN [children |-> children, counter |-> counter]
    ELSE [children |-> SubSeq(children, 1, path[1] - 1)
                          \o <<bookmarkStart(counter, bookmark_name), children[path[1]],
                               bookmarkEnd(counter)>>
                          \o SubSeq(children, path[1] + 1, Len(children)),
          counter |-> counter + 1]

\* the run emptied of all it holds besides its text
_remove_endnote_ref_from_run_and_rest(run) == [run EXCEPT !.rest = <<>>]

\* _remove_endnote_ref_from_run
_remove_endnote_ref_from_run(run) ==
    [run EXCEPT !.rest = keep(run.rest, LAMBDA e : e.tag # "endnoteReference")]

\* the run at a path of a paragraph with its markers removed
removeAt(children, path) ==
    IF Len(path) = 1
    THEN [children EXCEPT ![path[1]] = _remove_endnote_ref_from_run(@)]
    ELSE [children EXCEPT ![path[1]].children[path[2]] = _remove_endnote_ref_from_run(@)]

\* the 1-based position in the body of its k-th paragraph (1-based k)
RECURSIVE bodyIndexFrom(_, _, _)
bodyIndexFrom(body, k, i) ==
    IF body[i].tag = "p"
    THEN IF k = 1 THEN i ELSE bodyIndexFrom(body, k - 1, i + 1)
    ELSE bodyIndexFrom(body, k, i + 1)
bodyIndex(body, k) == bodyIndexFrom(body, k, 1)

\* the body of the loop of _transform_main_document for one reference:
\* [body, counter]
transformRef(body, counter, ref) ==
    LET b == bodyIndex(body, ref.paragraph_index + 1)
        para == body[b]
        runs == runsOf(para)
    IN  IF ref.run_index < Len(runs)
        THEN LET path == runs[ref.run_index + 1].path
                 cleared == removeAt(para.children, path)
                 marked == _insert_bookmark_before_run(cleared, path, ref.bookmark_name, counter)
             IN  [body |-> [body EXCEPT ![b].children = marked.children],
                  counter |-> marked.counter]
        ELSE [body |-> body, counter |-> counter]

\* _transform_main_document: the references taken last to first
RECURSIVE _transform_main_document(_, _, _)
_transform_main_document(body, counter, references) ==
    IF references = <<>> THEN [body |-> body, counter |-> counter]
    ELSE LET done == transformRef(body, counter, references[Len(references)])
         IN  _transform_main_document(done.body, done.counter,
                                      SubSeq(references, 1, Len(references) - 1))

\* _create_page_break_paragraph
_create_page_break_paragraph == P("", <<Run({}, <<>>, <<br>>)>>)

\* _create_notes_heading
_create_notes_heading == P("Heading1", <<Run({}, <<"N","o","t","e","s">>, <<>>)>>)

\* _create_incipit_paragraph
_create_incipit_paragraph(bookmark_name, incipit_text, citation, content_runs, format_style) ==
    LET italic == {<<"i", "">>}
        format == IF format_style = "bold" THEN {<<"b", "">>} ELSE {<<"i", "">>}
    IN  P("",
          <<Run(italic, <<>>, <<fldChar("begin")>>),
            Run(italic, <<>>, <<instrText(bookmark_name)>>),
            Run(italic, <<>>, <<fldChar("separate")>>),
            Run(italic, <<"#", "#">>, <<>>),
            Run(italic, <<>>, <<fldChar("end")>>),
            Run({}, <<" ", " ">>, <<>>),
            Run(format, incipit_text, <<>>),
            Run(format, <<":", " ">>, <<>>)>>
          \o (IF content_runs # <<>> THEN content_runs ELSE <<Run({}, citation, <<>>)>>))

\* the references as found, not sorted
sortedRefs_document_order(references) == references

\* sorted(self.references, key=lambda r: int(r.note_id)): a stable sort
sortedRefs(references) ==
    LET n == Len(references)
        before(i, j) == \/ references[i].note_id < references[j].note_id
                        \/ references[i].note_id = references[j].note_id /\ i < j
        kth(k) == CHOOSE i \in 1..n : Cardinality({j \in 1..n : before(j, i)}) = k - 1
    IN  [k \in 1..n |-> references[kth(k)]]

\* the paragraphs _append_notes_to_document adds, in the order it adds them
notesSection(references, endnotes, format_style) ==
    LET sorted_refs == sortedRefs(references)
        noteOf(ref) ==
            IF ref.note_id \notin DOMAIN endnotes THEN <<>>
            ELSE <<_create_incipit_paragraph(ref.bookmark_name, ref.incipit,
                                             endnotes[ref.note_id].content,
                                             endnotes[ref.note_id].content_runs,
                                             format_style)>>
    IN  <<_create_page_break_paragraph, _create_notes_heading>>
            \o concat([k \in 1..Len(sorted_refs) |-> noteOf(sorted_refs[k])])

\* _append_notes_to_document: each paragraph goes before the first sectPr
\* child of the body, or at the end when there is none
_append_notes_to_document(body, references, endnotes, format_style) ==
    LET S == {i \in 1..Len(body) : body[i].tag = "sectPr"}
        at == IF S = {} THEN Len(body) + 1 ELSE MinOf(S)
    IN  SubSeq(body, 1, at - 1)
            \o notesSection(references, endnotes, format_style)
            \o SubSeq(body, at, Len(body))

\* _clear_endnotes
_clear_endnotes(endnotes_body) ==
    keep(endnotes_body, LAMBDA e : ~(e.tag = "endnote" /\ e.id \notin SeparatorIds))

\* A file of the archive that holds XML: [present |-> whether it exists,
\* body |-> the children of its root]. An archive: [zip |-> whether the bytes
\* are a zip archive, document, endnotes |-> its two XML parts, others |-> the
\* content of every other part by name]
NoXml == [present |-> FALSE, body |-> <<>>]
NoArchive == [zip |-> FALSE, document |-> NoXml, endnotes |-> NoXml, others |-> <<>>]

\* the files of a scratch directory that holds none
NoFiles == [document |-> NoXml, endnotes |-> NoXml, others |-> <<>>]

\* _extract_docx: the files extractall writes
_extract_docx(archive) ==
    [document |-> archive.document, endnotes |-> archive.endnotes, others |-> archive.others]

\* _extract_docx, then _parse_xml_files: the exception raised, "" when none
_parse_xml_files_endnotes_optional(archive) ==
    IF ~archive.zip THEN "BadZipFile"
    ELSE IF ~archive.document.present THEN "ValueError"
    ELSE IF parseError(archive.document.body) # "" THEN parseError(archive.document.body)
    ELSE IF ~archive.endnotes.present THEN ""
    ELSE parseError(archive.endnotes.body)

_parse_xml_files(archive) ==
    IF ~archive.zip THEN "BadZipFile"
    ELSE IF ~archive.document.present THEN "ValueError"
    ELSE IF parseError(archive.document.body) # "" THEN parseError(archive.document.body)
    ELSE IF ~archive.endnotes.present THEN "ValueError"
    ELSE parseError(archive.endnotes.body)

\* _save_xml_files: the two trees are written over their files
_save_xml_files(files, document_body, endnotes_body) ==
    [files EXCEPT !.document = [present |-> TRUE, body |-> document_body],
                  !.endnotes = [present |-> TRUE, body |-> endnotes_body]]

\* _repackage_docx: every file of the directory goes into the archive under
\* its relative path
_repackage_docx_xml_parts_only(files) ==
    [zip |-> TRUE, document |-> files.document, endnotes |-> files.endnotes, others |-> <<>>]

_repackage_docx(files) ==
    [zip |-> TRUE, document |-> files.document, endnotes |-> files.endnotes,
     others |-> files.others]
(***************************************************************************)
(* Extraction of one incipit: the inputs                                   *)
(***************************************************************************)
\* She wrote, "the world is not enough," and paused.
S_world ==
    <<"S","h","e"," ","w","r","o","t","e",","," ","\"","t","h","e"," ","w",
      "o","r","l","d"," ","i","s"," ","n","o","t"," ","e","n","o","u","g","h",
      ",","\""," ","a","n","d"," ","p","a","u","s","e","d",".">>
\* The duty was settled long ago. In Osheroff v. Chestnut Lodge
S_osheroff ==
    <<"T","h","e"," ","d","u","t","y"," ","w","a","s"," ","s","e","t","t","l",
      "e","d"," ","l","o","n","g"," ","a","g","o","."," ","I","n"," ","O","s",
      "h","e","r","o","f","f"," ","v","."," ","C","h","e","s","t","n","u","t",
      " ","L","o","d","g","e">>
\* the quick brown fox jumps over the lazy dog
S_fox ==
    <<"t","h","e"," ","q","u","i","c","k"," ","b","r","o","w","n"," ","f","o",
      "x"," ","j","u","m","p","s"," ","o","v","e","r"," ","t","h","e"," ","l",
      "a","z","y"," ","d","o","g">>
\* the dog v. cat held that
S_lowercase_case ==
    <<"t","h","e"," ","d","o","g"," ","v","."," ","c","a","t"," ","h","e","l",
      "d"," ","t","h","a","t">>
\* Smith v. Jones. It was a long and winding road that led the court back to the same place again, and again. In Roe v. Wade
S_two_cases ==
    <<"S","m","i","t","h"," ","v","."," ","J","o","n","e","s","."," ","I","t",
      " ","w","a","s"," ","a"," ","l","o","n","g"," ","a","n","d"," ","w","i",
      "n","d","i","n","g"," ","r","o","a","d"," ","t","h","a","t"," ","l","e",
      "d"," ","t","h","e"," ","c","o","u","r","t"," ","b","a","c","k"," ","t",
      "o"," ","t","h","e"," ","s","a","m","e"," ","p","l","a","c","e"," ","a",
      "g","a","i","n",","," ","a","n","d"," ","a","g","a","i","n","."," ","I",
      "n"," ","R","o","e"," ","v","."," ","W","a","d","e">>
\* He called it "a new dawn"<emdash>or so he said
S_em_dash ==
    <<"H","e"," ","c","a","l","l","e","d"," ","i","t"," ","\"","a"," ","n",
      "e","w"," ","d","a","w","n","\"","<emdash>","o","r"," ","s","o"," ","h",
      "e"," ","s","a","i","d">>
\* "We shall," he said, "never yield"
S_split_quote ==
    <<"\"","W","e"," ","s","h","a","l","l",",","\""," ","h","e"," ","s","a",
      "i","d",","," ","\"","n","e","v","e","r"," ","y","i","e","l","d","\"">>
\* The committee that met on Friday finally declared "nothing will change here"
S_long_lead_in ==
    <<"T","h","e"," ","c","o","m","m","i","t","t","e","e"," ","t","h","a","t",
      " ","m","e","t"," ","o","n"," ","F","r","i","d","a","y"," ","f","i","n",
      "a","l","l","y"," ","d","e","c","l","a","r","e","d"," ","\"","n","o",
      "t","h","i","n","g"," ","w","i","l","l"," ","c","h","a","n","g","e"," ",
      "h","e","r","e","\"">>
\* First things first. Then came the rain, and the flood. After that
S_sentences ==
    <<"F","i","r","s","t"," ","t","h","i","n","g","s"," ","f","i","r","s","t",
      "."," ","T","h","e","n"," ","c","a","m","e"," ","t","h","e"," ","r","a",
      "i","n",","," ","a","n","d"," ","t","h","e"," ","f","l","o","o","d",".",
      " ","A","f","t","e","r"," ","t","h","a","t">>
\* In short, and despite all of that, the judges
S_two_commas ==
    <<"I","n"," ","s","h","o","r","t",","," ","a","n","d"," ","d","e","s","p",
      "i","t","e"," ","a","l","l"," ","o","f"," ","t","h","a","t",","," ","t",
      "h","e"," ","j","u","d","g","e","s">>
\* First things first. After that
S_one_back ==
    <<"F","i","r","s","t"," ","t","h","i","n","g","s"," ","f","i","r","s","t",
      "."," ","A","f","t","e","r"," ","t","h","a","t">>
\* The committee that met on Friday called it "nonsense"
S_short_quote ==
    <<"T","h","e"," ","c","o","m","m","i","t","t","e","e"," ","t","h","a","t",
      " ","m","e","t"," ","o","n"," ","F","r","i","d","a","y"," ","c","a","l",
      "l","e","d"," ","i","t"," ","\"","n","o","n","s","e","n","s","e","\"">>
Scenarios ==
    {S_world,
     S_osheroff,
     S_fox,
     S_lowercase_case,
     S_two_cases,
     S_em_dash,
     S_split_quote,
     S_long_lead_in,
     S_sentences,
     S_two_commas,
     S_one_back,
     S_short_quote}

\* the run texts the generated contexts are made of
Fragments ==
    {<<"g","o">>, <<"H","e">>, <<" ">>, <<",">>, <<".">>, <<DQ>>, <<":">>}

\* how many fragments a generated context holds at most
MaxFrags == 3

\* the concatenations of at most n fragments
RECURSIVE FragTexts(_)
FragTexts(n) ==
    IF n = 0 THEN {<<>>}
    ELSE LET shorter == FragTexts(n - 1)
         IN  shorter \cup {t \o f : t \in shorter, f \in Fragments}

Contexts == Scenarios \cup FragTexts(MaxFrags)

\* phrases earlier references of the conversion were given
UsedPhrases ==
    {<<"H","e"," ","g","o">>,
     <<"A","f","t","e","r"," ","t","h","a","t">>}
UsedSets == {{}} \cup {{u} : u \in UsedPhrases} \cup {UsedPhrases}

\* process_document passes 3 by default; 5 is the extractor's own default
WordCounts == {3, 5}


(***************************************************************************)
(* Texts of runs                                                           *)
(***************************************************************************)
\* a URL
UrlA ==
    <<"h","t","t","p",":","/","/","a">>
\* another URL, with the other scheme
UrlB ==
    <<"h","t","t","p","s",":","/","/","b">>
\* the target of a relationship that is not a hyperlink
StylesTarget ==
    <<"s","t","y","l","e","s",".","x","m","l">>
\* a sentence that ends in a URL and a full stop
T_see ==
    <<"s","e","e"," ","h","t","t","p",":","/","/","a",".">>
\* a URL followed by a comma and more text
T_visit ==
    <<"a","t"," ","h","t","t","p","s",":","/","/","b",","," ","o","k">>
\* two URLs in one run, the second in parentheses
T_two ==
    <<"h","t","t","p",":","/","/","a"," ","(","h","t","t","p","s",":","/",
      "/","b",")">>
\* the first URL on its own
T_again ==
    <<"h","t","t","p",":","/","/","a">>
\* a text with no URL
T_plain ==
    <<"g","o">>
\* a sentence that ends in a quotation
T_quote ==
    <<"H","e"," ","s","a","i","d"," ",DQ,"g","o"," ","n","o","w",DQ>>
\* two sentences
T_rain ==
    <<"I","t"," ","r","a","i","n","e","d","."," ","T","h","e","n"," ","i",
      "t"," ","s","t","o","p","p","e","d">>
\* the text of a note, with a URL
T_cite ==
    <<"S","m","i","t","h",","," ","a","t"," ","h","t","t","p",":","/","/",
      "a">>

(***************************************************************************)
(* Relationship tables                                                     *)
(***************************************************************************)
Urls == {UrlA, UrlB}

\* the Relationship elements a .rels file is made of: two hyperlinks to one
\* URL, a relationship that is no hyperlink, and a hyperlink whose id does
\* not start with rId
RelChoices ==
    {Rel(rId(1), HYPERLINK_TYPE, UrlA, "External"),
     Rel(rId(2), HYPERLINK_TYPE, UrlA, "External"),
     Rel(rId(3), "styles", StylesTarget, ""),
     Rel([name |-> "id", num |-> 7], HYPERLINK_TYPE, UrlB, "External")}

\* how many elements a .rels file holds at most
MaxRels == 2

\* the tables of exactly n elements with distinct ids, in any order
RECURSIVE TablesOf(_)
TablesOf(n) ==
    IF n = 0 THEN {<<>>}
    ELSE {Append(tb, r) : tb \in TablesOf(n - 1), r \in RelChoices}

Tables ==
    {tb \in UNION {TablesOf(n) : n \in 0..MaxRels} :
        \A i, j \in 1..Len(tb) : i # j => tb[i].Id # tb[j].Id}

NoFile == [present |-> FALSE, table |-> <<>>]
\* no file, a file with one of the tables, or a file that does not parse
UnparsableFiles ==
    {[present |-> TRUE, table |-> NotWellFormed], [present |-> TRUE, table |-> UnknownEncoding]}
RelFiles == {NoFile} \cup {[present |-> TRUE, table |-> tb] : tb \in Tables} \cup UnparsableFiles

\* a relationship whose id is rId02: the number of rId2 under another string
ZeroPaddedRel == Rel([name |-> "rId0", num |-> 2], "styles", StylesTarget, "")
\* the files with that relationship before or after the elements of a table
ZeroPaddedFiles ==
    {[present |-> TRUE, table |-> tb \o <<ZeroPaddedRel>>] : tb \in Tables}
        \cup {[present |-> TRUE, table |-> <<ZeroPaddedRel>> \o tb] : tb \in Tables}

(***************************************************************************)
(* Packages given to activate_links                                        *)
(***************************************************************************)
\* the children a paragraph is made of
LinkChildren ==
    {Run({<<"b", "">>}, T_see, <<>>),
     Run({<<"color", "FF0000">>}, T_two, <<>>),
     Run({}, T_again, <<[tag |-> "tab"], wt(T_plain)>>),
     Run({<<"i", "">>}, T_visit, <<>>),
     Run({}, T_plain, <<>>),
     Run({}, <<>>, <<wt(UrlB)>>),
     Hyperlink(rId(1), <<Run({}, UrlA, <<>>)>>)}

\* how many children a paragraph holds at most
MaxChildren == 2

RECURSIVE ChildSeqs(_)
ChildSeqs(n) ==
    IF n = 0 THEN {<<>>}
    ELSE LET shorter == ChildSeqs(n - 1)
         IN  shorter \cup {Append(cs, c) : cs \in shorter, c \in LinkChildren}

NoPart == [present |-> FALSE, body |-> <<>>, rels |-> NoFile]

\* the document part: one paragraph, then the section properties
LinkDocuments ==
    {[present |-> TRUE, body |-> <<P("", cs), sectPr>>, rels |-> f] :
        cs \in ChildSeqs(MaxChildren), f \in RelFiles}

\* the endnotes part: absent, not well-formed, or one note that names the
\* first URL
LinkEndnotes ==
    {NoPart,
     [present |-> TRUE, body |-> NotWellFormed, rels |-> NoFile],
     [present |-> TRUE,
      body |-> <<endnote(1, <<P("", <<Run({}, T_cite, <<>>), Run({}, T_see, <<>>)>>)>>)>>,
      rels |-> NoFile]}

\* the footnotes part: absent, or one paragraph
LinkFootnotes ==
    {NoPart,
     [present |-> TRUE, body |-> <<P("", <<Run({}, T_again, <<>>)>>)>>,
      rels |-> [present |-> TRUE, table |-> <<>>]]}

LinkPackages ==
    {[n \in PartNames |-> IF n = "document" THEN d ELSE IF n = "endnotes" THEN e ELSE f] :
        d \in LinkDocuments, e \in LinkEndnotes, f \in LinkFootnotes}

(***************************************************************************)
(* Packages given to process_document                                      *)
(***************************************************************************)
\* a citation marker: a superscript run that holds an endnoteReference
Marker(id) == Run({<<"vertAlign", "superscript">>}, <<>>, <<endnoteReference(id)>>)
\* a run that holds a tab before its marker
MarkerAfterTab(id) ==
    Run({<<"vertAlign", "superscript">>}, <<>>, <<[tag |-> "tab"], endnoteReference(id)>>)

\* what a body is written from: runs of text, markers (one of them inside a
\* hyperlink), and "break", which ends the paragraph
BodyItems ==
    {Run({}, T_quote, <<>>),
     Run({<<"i", "">>}, T_rain, <<>>),
     Marker(1), Marker(2), MarkerAfterTab(3),
     Hyperlink(rId(1), <<Marker(2)>>),
     [tag |-> "break"]}

\* how many items a body is written from at most
MaxItems == 3

RECURSIVE ItemSeqs(_)
ItemSeqs(n) ==
    IF n = 0 THEN {<<>>}
    ELSE LET shorter == ItemSeqs(n - 1)
         IN  shorter \cup {Append(is, c) : is \in shorter, c \in BodyItems}

\* the paragraphs a sequence of items makes
RECURSIVE paragraphsFrom(_, _)
paragraphsFrom(items, children) ==
    IF items = <<>> THEN <<P("", children)>>
    ELSE IF Head(items).tag = "break"
    THEN <<P("", children)>> \o paragraphsFrom(Tail(items), <<>>)
    ELSE paragraphsFrom(Tail(items), Append(children, Head(items)))

Bodies ==
    {paragraphsFrom(is, <<>>) \o tail : is \in ItemSeqs(MaxItems), tail \in {<<>>, <<sectPr>>}}

\* the separator notes every endnotes part holds
Separators ==
    <<endnote(-1, <<P("", <<Run({}, <<>>, <<[tag |-> "separator"]>>)>>)>>),
      endnote(0, <<P("", <<Run({}, <<>>, <<[tag |-> "continuationSeparator"]>>)>>)>>)>>

\* note 1 has a citation in two runs, note 2 nothing but its own number
Note1 ==
    endnote(1, <<P("", <<Run({<<"vertAlign", "superscript">>}, <<>>, <<endnoteRef>>),
                         Run({}, T_cite, <<>>),
                         Run({<<"i", "">>}, T_plain, <<>>)>>)>>)
Note2 ==
    endnote(2, <<P("", <<Run({<<"vertAlign", "superscript">>}, <<>>, <<endnoteRef>>)>>)>>)

EndnoteBodies ==
    {Separators, Separators \o <<Note1>>, Separators \o <<Note1, Note2>>}

\* a body that already holds a bookmark with this id around its text, then
\* the marker of note 1
Bookmarked(id) ==
    <<P("", <<bookmarkStart(id, [base |-> "_Toc", n |-> 1]),
              Run({}, T_rain, <<>>),
              bookmarkEnd(id),
              Marker(1)>>),
      sectPr>>

\* the ids of the bookmarks the bodies above come with
ExistingBookmarkIds == {7, 1000}

\* the parts an archive holds besides its two XML parts
ContentTypes == "[Content_Types].xml" :> "types"
Styles == "word/styles.xml" :> "styles"
OtherParts == {ContentTypes, ContentTypes @@ Styles}

Archive(document, endnotes, others) ==
    [zip |-> TRUE, document |-> document, endnotes |-> endnotes, others |-> others]

Xml(body) == [present |-> TRUE, body |-> body]

\* the archives: every body with every endnotes part, the bodies that come
\* with a bookmark, with each choice of other parts; the archives that lack
\* a part or hold one that does not parse; and bytes that are no archive
Archives ==
    {Archive(Xml(b), Xml(e), ContentTypes @@ Styles) : b \in Bodies, e \in EndnoteBodies}
    \cup {Archive(Xml(Bookmarked(id)), Xml(Separators \o <<Note1>>), o) :
             id \in ExistingBookmarkIds, o \in OtherParts}
    \cup {Archive(NoXml, Xml(Separators), ContentTypes),
          Archive(Xml(<<P("", <<Run({}, T_plain, <<>>)>>)>>), NoXml, ContentTypes),
          Archive(Xml(NotWellFormed), Xml(Separators), ContentTypes),
          Archive(Xml(<<P("", <<Run({}, T_plain, <<>>)>>)>>), Xml(NotWellFormed), ContentTypes),
          NoArchive}

\* the word_count and format_style arguments
DocWordCounts == {3}
FormatStyles == {"bold", "italic"}

(***************************************************************************)
(* State                                                                   *)
(***************************************************************************)
VARIABLES
    text_before_ref,   \* extract_incipit: the text before the marker
    used_incipits,     \* extract_incipit: self.used_incipits
    word_count,        \* extract_incipit: the word_count argument
    incipit,           \* extract_incipit: the phrase returned (None before the call)
    strategy,          \* the strategy that produced it
    ex_pc,             \* "ready" before the call, "done" after it
    rels_file,         \* RelsManager: the .rels file at rels_path
    rels_manager,      \* RelsManager: relationships, next_id, url_to_rid
    rm_pc,             \* "closed" before __init__, "open" after it, "saved" after save,
                       \* "raised" when __init__ raised
    loaded,            \* the manager as __init__ left it
    calls,             \* the add_hyperlink calls made: [url, r_id] each
    package,           \* activate_links: the parts of the archive given to the next pass
    passes,            \* activate_links: the passes made
    first_output,      \* activate_links: what the first pass returned
    link_zip,          \* activate_links: whether docx_bytes are a zip archive
    link_temp_dir,     \* activate_links: whether the scratch directory exists
    link_pc,           \* activate_links: "ready" when docx_bytes are given, "extracted"
                       \* inside a call, then how the call ended: "returned" or "raised"
    docx,              \* DocumentProcessor: the archive in docx_bytes
    dp_word_count,     \* DocumentProcessor: self.word_count
    format_style,      \* DocumentProcessor: self.format_style
    document_xml,      \* DocumentProcessor: the children of the body of document.xml
    endnotes_xml,      \* DocumentProcessor: the children of the root of endnotes.xml
    references,        \* DocumentProcessor: self.references
    strategies,        \* the strategy that gave each reference its incipit
    endnotes,          \* DocumentProcessor: self.endnotes
    bookmark_counter,  \* DocumentProcessor: self.bookmark_counter
    temp_dir,          \* DocumentProcessor: whether the scratch directory exists
    files,             \* DocumentProcessor: the files of the scratch directory
    result,            \* process: the archive returned
    dp_pc,             \* process: the step to take next
    _namespace_map,    \* ElementTree: the namespaces that have their prefix registered
    threads,           \* concurrent requests: of each thread, the docx_bytes given,
                       \* where it is in activate_links, the items its
                       \* register_namespace call listed, and the bytes returned
    scanned,           \* _transform_main_document: the body as the scan saw it
    pending,           \* _transform_main_document: the references its loop has
                       \* still to take
    heap,              \* the run elements in memory: the content of each node
    endnote_nodes,     \* of each note of the parsed endnotes tree, the nodes of its runs
    endnotes_root,     \* the ids of the notes that are children of the endnotes root
    content_runs,      \* self.endnotes: of each note id, the nodes in content_runs
    note_nodes,        \* of each note paragraph appended to the body, the note id and
                       \* the nodes of its runs
    cited_ids,             \* the note ids of self.references
    heap_pc            \* where the conversion is

exVars == <<text_before_ref, used_incipits, word_count, incipit, strategy, ex_pc>>
relVars == <<rels_file, rels_manager, rm_pc, loaded, calls>>
linkVars == <<package, passes, first_output, link_zip, link_temp_dir, link_pc>>
docVars == <<docx, dp_word_count, format_style, document_xml, endnotes_xml, references,
             strategies, endnotes, bookmark_counter, temp_dir, files, result, dp_pc>>
concVars == <<_namespace_map, threads>>
trVars == <<scanned, pending>>
heapVars == <<heap, endnote_nodes, endnotes_root, content_runs, note_nodes, cited_ids, heap_pc>>
vars == <<exVars, relVars, linkVars, docVars, concVars, trVars, heapVars>>

\* the components a specification does not exercise
ConcIdle == _namespace_map = {} /\ threads = <<>>
TrIdle == scanned = <<>> /\ pending = 0
HeapIdle ==
    /\ heap = <<>> /\ endnote_nodes = <<>> /\ endnotes_root = <<>> /\ content_runs = <<>>
    /\ note_nodes = <<>> /\ cited_ids = <<>> /\ heap_pc = "idle"
ExIdle ==
    /\ text_before_ref = <<>> /\ used_incipits = {} /\ word_count = 0
    /\ incipit = None /\ strategy = "none" /\ ex_pc = "idle"
RelIdle ==
    /\ rels_file = NoFile /\ rels_manager = EmptyRels /\ rm_pc = "idle"
    /\ loaded = EmptyRels /\ calls = <<>>
LinkIdle ==
    /\ package = [n \in PartNames |-> NoPart] /\ passes = 0
    /\ first_output = [n \in PartNames |-> NoPart]
    /\ link_zip = FALSE /\ link_temp_dir = FALSE /\ link_pc = "idle"
DocIdle ==
    /\ docx = NoArchive /\ dp_word_count = 0 /\ format_style = "bold"
    /\ document_xml = <<>> /\ endnotes_xml = <<>> /\ references = <<>>
    /\ strategies = <<>> /\ endnotes = <<>> /\ bookmark_counter = FirstBookmarkId
    /\ temp_dir = FALSE /\ files = NoFiles /\ result = NoArchive /\ dp_pc = "idle"

(***************************************************************************)
(* extract_incipit                                                         *)
(***************************************************************************)
ExInit ==
    /\ text_before_ref \in Contexts
    /\ used_incipits \in UsedSets
    /\ word_count \in WordCounts
    /\ incipit = None
    /\ strategy = "none"
    /\ ex_pc = "ready"
    /\ RelIdle /\ LinkIdle /\ DocIdle /\ ConcIdle /\ TrIdle /\ HeapIdle

\* the module-level extract_incipit: build the extractor, extract one phrase
ExtractIncipit ==
    /\ ex_pc = "ready"
    /\ incipit' = extract_incipit(text_before_ref, used_incipits, target_words(word_count))
    /\ strategy' = strategyOf(text_before_ref, used_incipits, target_words(word_count))
    /\ ex_pc' = "done"
    /\ UNCHANGED <<text_before_ref, used_incipits, word_count>>
    /\ UNCHANGED <<relVars, linkVars, docVars, concVars, trVars, heapVars>>

NextExtract == ExtractIncipit
SpecExtract == ExInit /\ [][NextExtract]_vars

(***************************************************************************)
(* RelsManager                                                             *)
(***************************************************************************)
\* how many add_hyperlink calls one manager gets at most
MaxCalls == 3

RelInit ==
    /\ rels_file \in RelFiles \cup ZeroPaddedFiles
    /\ rels_manager = EmptyRels
    /\ rm_pc = "closed"
    /\ loaded = EmptyRels
    /\ calls = <<>>
    /\ ExIdle /\ LinkIdle /\ DocIdle /\ ConcIdle /\ TrIdle /\ HeapIdle

\* RelsManager(rels_path)
OpenRels ==
    /\ rm_pc = "closed"
    /\ IF loadRaises(rels_file)
       THEN /\ rm_pc' = "raised"
            /\ UNCHANGED <<rels_manager, loaded>>
       ELSE /\ rels_manager' = _load(rels_file)
            /\ loaded' = _load(rels_file)
            /\ rm_pc' = "open"
    /\ UNCHANGED <<rels_file, calls>>
    /\ UNCHANGED <<exVars, linkVars, docVars, concVars, trVars, heapVars>>

\* rels_manager.add_hyperlink(url)
AddHyperlink(url) ==
    /\ rm_pc = "open"
    /\ Len(calls) < MaxCalls
    /\ rels_manager' = add_hyperlink(rels_manager, url).rm
    /\ calls' = Append(calls, [url |-> url, r_id |-> add_hyperlink(rels_manager, url).r_id])
    /\ UNCHANGED <<rels_file, rm_pc, loaded>>
    /\ UNCHANGED <<exVars, linkVars, docVars, concVars, trVars, heapVars>>

\* rels_manager.save()
SaveRels ==
    /\ rm_pc = "open"
    /\ rels_file' = save(rels_manager)
    /\ rm_pc' = "saved"
    /\ UNCHANGED <<rels_manager, loaded, calls>>
    /\ UNCHANGED <<exVars, linkVars, docVars, concVars, trVars, heapVars>>

NextRels ==
    \/ OpenRels
    \/ \E url \in Urls : AddHyperlink(url)
    \/ SaveRels
SpecRels == RelInit /\ [][NextRels]_vars

(***************************************************************************)
(* activate_links                                                          *)
(***************************************************************************)
\* how many times activate_links is applied to its own output at most
MaxPasses == 2

\* docx_bytes: an archive with its parts, or bytes that are no archive
LinkInit ==
    /\ \/ link_zip = TRUE /\ package \in LinkPackages
       \/ link_zip = FALSE /\ package = [n \in PartNames |-> NoPart]
    /\ passes = 0
    /\ first_output = [n \in PartNames |-> NoPart]
    /\ link_temp_dir = FALSE
    /\ link_pc = "ready"
    /\ ExIdle /\ RelIdle /\ DocIdle /\ ConcIdle /\ TrIdle /\ HeapIdle

\* activate_links(docx_bytes), given what the pass before returned: mkdtemp
\* and extractall; on bytes that are no archive the except clause returns
\* them as they are and the finally clause removes the directory
ExtractLinks ==
    /\ link_pc \in {"ready", "returned"}
    /\ passes < MaxPasses
    /\ IF link_zip
       THEN /\ link_temp_dir' = TRUE
            /\ link_pc' = "extracted"
            /\ UNCHANGED <<passes, first_output>>
       ELSE /\ link_temp_dir' = FALSE
            /\ link_pc' = "returned"
            /\ passes' = passes + 1
            /\ first_output' = IF passes = 0 THEN package ELSE first_output
    /\ UNCHANGED <<package, link_zip>>
    /\ UNCHANGED <<exVars, relVars, docVars, concVars, trVars, heapVars>>

\* the rest of the call: the parts are processed and the archive is written
\* again, or the except clause returns docx_bytes; the finally clause removes
\* the directory
ActivateLinks ==
    /\ link_pc = "extracted"
    /\ package' = process_links(package)
    /\ passes' = passes + 1
    /\ first_output' = IF passes = 0 THEN package' ELSE first_output
    /\ link_temp_dir' = FALSE
    /\ link_pc' = "returned"
    /\ UNCHANGED link_zip
    /\ UNCHANGED <<exVars, relVars, docVars, concVars, trVars, heapVars>>

NextLinks == ExtractLinks \/ ActivateLinks
SpecLinks == LinkInit /\ [][NextLinks]_vars

(***************************************************************************)
(* DocumentProcessor.process                                               *)
(***************************************************************************)
\* DocumentProcessor(docx_bytes, word_count, format_style): the object as
\* __init__ leaves it, its scratch directory made
DocInit ==
    /\ docx \in Archives
    /\ dp_word_count \in DocWordCounts
    /\ format_style \in FormatStyles
    /\ document_xml = <<>>
    /\ endnotes_xml = <<>>
    /\ references = <<>>
    /\ strategies = <<>>
    /\ endnotes = <<>>
    /\ bookmark_counter = FirstBookmarkId
    /\ temp_dir = TRUE
    /\ files = NoFiles
    /\ result = NoArchive
    /\ dp_pc = "_parse_xml_files"
    /\ ExIdle /\ RelIdle /\ LinkIdle /\ ConcIdle /\ TrIdle /\ HeapIdle

\* steps 1 and 2: _extract_docx, then _parse_xml_files; when one of them
\* raises, the finally clause of process removes the directory
ParseXmlFiles ==
    /\ dp_pc = "_parse_xml_files"
    /\ IF _parse_xml_files(docx) = ""
       THEN /\ files' = _extract_docx(docx)
            /\ document_xml' = docx.document.body
            /\ endnotes_xml' = docx.endnotes.body
            /\ dp_pc' = "_find_endnote_references"
            /\ UNCHANGED temp_dir
       ELSE /\ document_xml' = IF /\ docx.zip /\ docx.document.present
                                  /\ parseError(docx.document.body) = ""
                               THEN docx.document.body ELSE <<>>
            /\ dp_pc' = "raised"
            /\ temp_dir' = FALSE
            /\ files' = NoFiles
            /\ UNCHANGED endnotes_xml
    /\ UNCHANGED <<docx, dp_word_count, format_style, references, strategies, endnotes,
                   bookmark_counter, result>>
    /\ UNCHANGED <<exVars, relVars, linkVars, concVars, trVars, heapVars>>

\* step 3
FindEndnoteReferences ==
    /\ dp_pc = "_find_endnote_references"
    /\ references' = _find_endnote_references(document_xml)
    /\ dp_pc' = "_extract_incipits"
    /\ UNCHANGED <<docx, dp_word_count, format_style, document_xml, endnotes_xml, strategies,
                   endnotes, bookmark_counter, temp_dir, files, result>>
    /\ UNCHANGED <<exVars, relVars, linkVars, concVars, trVars, heapVars>>

\* step 4
ExtractIncipits ==
    /\ dp_pc = "_extract_incipits"
    /\ references' = _extract_incipits(references, dp_word_count)
    /\ strategies' = strategiesLoop(references', {}, dp_word_count)
    /\ dp_pc' = "_read_endnotes"
    /\ UNCHANGED <<docx, dp_word_count, format_style, document_xml, endnotes_xml, endnotes,
                   bookmark_counter, temp_dir, files, result>>
    /\ UNCHANGED <<exVars, relVars, linkVars, concVars, trVars, heapVars>>

\* step 5
ReadEndnotes ==
    /\ dp_pc = "_read_endnotes"
    /\ endnotes' = _read_endnotes(endnotes_xml)
    /\ dp_pc' = "_transform_document"
    /\ UNCHANGED <<docx, dp_word_count, format_style, document_xml, endnotes_xml, references,
                   strategies, bookmark_counter, temp_dir, files, result>>
    /\ UNCHANGED <<exVars, relVars, linkVars, concVars, trVars, heapVars>>

\* step 6, _transform_document: _transform_main_document, then
\* _append_notes_to_document, then _clear_endnotes, then _save_xml_files
TransformDocument ==
    /\ dp_pc = "_transform_document"
    /\ LET main == _transform_main_document(document_xml, bookmark_counter, references)
       IN  /\ document_xml' = _append_notes_to_document(main.body, references, endnotes,
                                                        format_style)
           /\ bookmark_counter' = main.counter
    /\ endnotes_xml' = _clear_endnotes(endnotes_xml)
    /\ files' = _save_xml_files(files, document_xml', endnotes_xml')
    /\ dp_pc' = "_repackage_docx"
    /\ UNCHANGED <<docx, dp_word_count, format_style, references, strategies, endnotes,
                   temp_dir, result>>
    /\ UNCHANGED <<exVars, relVars, linkVars, concVars, trVars, heapVars>>

\* step 7 and the finally clause: the archive is returned, the directory removed
RepackageDocx ==
    /\ dp_pc = "_repackage_docx"
    /\ result' = _repackage_docx(files)
    /\ temp_dir' = FALSE
    /\ files' = NoFiles
    /\ dp_pc' = "returned"
    /\ UNCHANGED <<docx, dp_word_count, format_style, document_xml, endnotes_xml, references,
                   strategies, endnotes, bookmark_counter>>
    /\ UNCHANGED <<exVars, relVars, linkVars, concVars, trVars, heapVars>>

\* the steps of process
Steps ==
    {"_parse_xml_files", "_find_endnote_references", "_extract_incipits", "_read_endnotes",
     "_transform_document", "_repackage_docx"}

\* a step ends in an exception of its own (an OSError of the file system, a
\* MemoryError): the finally clause of process removes the directory and the
\* exception reaches the caller
Fault_leaves_directory ==
    /\ dp_pc \in Steps
    /\ dp_pc' = "raised"
    /\ UNCHANGED <<docx, dp_word_count, format_style, document_xml, endnotes_xml, references,
                   strategies, endnotes, bookmark_counter, temp_dir, files, result>>
    /\ UNCHANGED <<exVars, relVars, linkVars, concVars, trVars, heapVars>>

Fault ==
    /\ dp_pc \in Steps
    /\ dp_pc' = "raised"
    /\ temp_dir' = FALSE
    /\ files' = NoFiles
    /\ UNCHANGED <<docx, dp_word_count, format_style, document_xml, endnotes_xml, references,
                   strategies, endnotes, bookmark_counter, result>>
    /\ UNCHANGED <<exVars, relVars, linkVars, concVars, trVars, heapVars>>

NextDoc ==
    \/ ParseXmlFiles
    \/ FindEndnoteReferences
    \/ ExtractIncipits
    \/ ReadEndnotes
    \/ TransformDocument
    \/ RepackageDocx
    \/ Fault
SpecDoc == DocInit /\ [][NextDoc]_vars

(***************************************************************************)
(* app.py: process, the handler of an upload                               *)
(***************************************************************************)
\* the parts activate_links finds in an archive process_document returned
partsOf(archive) ==
    [n \in PartNames |->
        IF n = "document"
        THEN [present |-> archive.document.present, body |-> archive.document.body,
              rels |-> NoFile]
        ELSE IF n = "endnotes"
        THEN [present |-> archive.endnotes.present, body |-> archive.endnotes.body,
              rels |-> NoFile]
        ELSE NoPart]

\* the upload is read and given to process_document
AppInit == DocInit

\* final_bytes = activate_links(transformed_bytes)
HandOver ==
    /\ dp_pc = "returned"
    /\ link_pc = "idle"
    /\ package' = partsOf(result)
    /\ link_zip' = TRUE
    /\ link_pc' = "ready"
    /\ UNCHANGED <<passes, first_output, link_temp_dir>>
    /\ UNCHANGED <<exVars, relVars, docVars, concVars, trVars, heapVars>>

\* process_document, then one call of activate_links on what it returned; an
\* exception of process_document ends the handler
NextApp ==
    \/ NextDoc
    \/ HandOver
    \/ ExtractLinks /\ passes = 0
    \/ ActivateLinks
SpecApp == AppInit /\ [][NextApp]_vars

(***************************************************************************)
(* Concurrent calls of activate_links                                      *)
(***************************************************************************)
\* the requests served at the same time, one thread each
Threads == {1, 2}

\* LinkActivator.NS: the namespaces _process_xml_file registers, in order
NS == <<"w", "r">>

\* the docx_bytes of a request: a document of one paragraph with one child
ConcPackages ==
    {[n \in PartNames |->
        IF n = "document"
        THEN [present |-> TRUE, body |-> <<P("", <<c>>), sectPr>>, rels |-> NoFile]
        ELSE NoPart] : c \in LinkChildren}

\* bytes: the parts, and the namespaces written with their registered prefix
\* (the others are written as ns0, ns1)
Bytes(parts, prefixed) == [package |-> parts, prefixed |-> prefixed]

\* the namespaces are registered when the modules are imported
ConcInit ==
    /\ _namespace_map = {NS[k] : k \in 1..Len(NS)}
    /\ threads \in [Threads ->
                      {[docx_bytes |-> Bytes(pk, {NS[k] : k \in 1..Len(NS)}),
                        pc |-> "ready", k |-> 1, items |-> {},
                        returned |-> Bytes([n \in PartNames |-> NoPart], {})] :
                         pk \in ConcPackages}]
    /\ ExIdle /\ RelIdle /\ LinkIdle /\ DocIdle /\ TrIdle /\ HeapIdle

\* activate_links(docx_bytes) up to the loop of _process_xml_file that
\* registers the namespaces
BeginCall(t) ==
    /\ threads[t].pc = "ready"
    /\ threads' = [threads EXCEPT ![t].pc = "items"]
    /\ UNCHANGED _namespace_map
    /\ UNCHANGED <<exVars, relVars, linkVars, docVars, trVars, heapVars>>

\* register_namespace(prefix, uri): list(_namespace_map.items())
RegisterItems(t) ==
    /\ threads[t].pc = "items"
    /\ threads' = [threads EXCEPT ![t].items = _namespace_map, ![t].pc = "del"]
    /\ UNCHANGED _namespace_map
    /\ UNCHANGED <<exVars, relVars, linkVars, docVars, trVars, heapVars>>

\* register_namespace: the loop over the items listed, which deletes the
\* entry of the uri; del raises KeyError when the entry is there no more,
\* and the except clause of LinkActivator.process returns docx_bytes
RegisterDel(t) ==
    /\ threads[t].pc = "del"
    /\ IF NS[threads[t].k] \notin threads[t].items
       THEN /\ threads' = [threads EXCEPT ![t].pc = "set"]
            /\ UNCHANGED _namespace_map
       ELSE IF NS[threads[t].k] \in _namespace_map
       THEN /\ _namespace_map' = _namespace_map \ {NS[threads[t].k]}
            /\ threads' = [threads EXCEPT ![t].pc = "set"]
       ELSE /\ threads' = [threads EXCEPT ![t].returned = threads[t].docx_bytes,
                                          ![t].pc = "returned"]
            /\ UNCHANGED _namespace_map
    /\ UNCHANGED <<exVars, relVars, linkVars, docVars, trVars, heapVars>>

\* register_namespace: _namespace_map[uri] = prefix; then the next namespace
\* of the loop
RegisterSet(t) ==
    /\ threads[t].pc = "set"
    /\ _namespace_map' = _namespace_map \cup {NS[threads[t].k]}
    /\ threads' = IF threads[t].k < Len(NS)
                  THEN [threads EXCEPT ![t].k = threads[t].k + 1, ![t].pc = "items"]
                  ELSE [threads EXCEPT ![t].pc = "write"]
    /\ UNCHANGED <<exVars, relVars, linkVars, docVars, trVars, heapVars>>

\* the rest of the call: the paragraphs are processed, tree.write gives each
\* namespace the prefix _namespace_map holds for it at that time, and the
\* archive is returned
WriteAndReturn(t) ==
    /\ threads[t].pc = "write"
    /\ threads' = [threads EXCEPT
                     ![t].returned = Bytes(process_links(threads[t].docx_bytes.package),
                                           _namespace_map),
                     ![t].pc = "returned"]
    /\ UNCHANGED _namespace_map
    /\ UNCHANGED <<exVars, relVars, linkVars, docVars, trVars, heapVars>>

NextConcurrent ==
    \E t \in Threads :
        \/ BeginCall(t)
        \/ RegisterItems(t)
        \/ RegisterDel(t)
        \/ RegisterSet(t)
        \/ WriteAndReturn(t)
SpecConcurrent == ConcInit /\ [][NextConcurrent]_vars

(***************************************************************************)
(* _transform_document, one reference of the loop at a time                *)
(***************************************************************************)
\* _transform_main_document is entered: the loop has every reference to take
BeginTransform ==
    /\ dp_pc = "_transform_document"
    /\ scanned' = document_xml
    /\ pending' = Len(references)
    /\ dp_pc' = "_transform_main_document"
    /\ UNCHANGED <<docx, dp_word_count, format_style, document_xml, endnotes_xml, references,
                   strategies, endnotes, bookmark_counter, temp_dir, files, result>>
    /\ UNCHANGED <<exVars, relVars, linkVars, concVars, heapVars>>

\* the references taken first to last
ApplyReference_first_to_last ==
    /\ dp_pc = "_transform_main_document"
    /\ pending > 0
    /\ LET done == transformRef(document_xml, bookmark_counter,
                                references[Len(references) - pending + 1])
       IN  /\ document_xml' = done.body
           /\ bookmark_counter' = done.counter
    /\ pending' = pending - 1
    /\ UNCHANGED <<docx, dp_word_count, format_style, endnotes_xml, references, strategies,
                   endnotes, temp_dir, files, result, dp_pc, scanned>>
    /\ UNCHANGED <<exVars, relVars, linkVars, concVars, heapVars>>

\* one turn of the loop over reversed(self.references): the bookmark is
\* inserted and the marker removed for the last reference not yet taken
ApplyReference ==
    /\ dp_pc = "_transform_main_document"
    /\ pending > 0
    /\ LET done == transformRef(document_xml, bookmark_counter, references[pending])
       IN  /\ document_xml' = done.body
           /\ bookmark_counter' = done.counter
    /\ pending' = pending - 1
    /\ UNCHANGED <<docx, dp_word_count, format_style, endnotes_xml, references, strategies,
                   endnotes, temp_dir, files, result, dp_pc, scanned>>
    /\ UNCHANGED <<exVars, relVars, linkVars, concVars, heapVars>>

\* the loop is over: _append_notes_to_document, _clear_endnotes, _save_xml_files
FinishTransform ==
    /\ dp_pc = "_transform_main_document"
    /\ pending = 0
    /\ document_xml' = _append_notes_to_document(document_xml, references, endnotes,
                                                 format_style)
    /\ endnotes_xml' = _clear_endnotes(endnotes_xml)
    /\ files' = _save_xml_files(files, document_xml', endnotes_xml')
    /\ dp_pc' = "_repackage_docx"
    /\ UNCHANGED <<docx, dp_word_count, format_style, references, strategies, endnotes,
                   bookmark_counter, temp_dir, result, scanned, pending>>
    /\ UNCHANGED <<exVars, relVars, linkVars, concVars, heapVars>>

NextTransform ==
    \/ ParseXmlFiles
    \/ FindEndnoteReferences
    \/ ExtractIncipits
    \/ ReadEndnotes
    \/ BeginTransform
    \/ ApplyReference
    \/ FinishTransform
    \/ RepackageDocx
    \/ Fault
SpecTransform == DocInit /\ [][NextTransform]_vars

(***************************************************************************)
(* The note paragraphs as elements in memory: which tree holds which node  *)
(***************************************************************************)
\* how many markers the body cites notes with at most
MaxCited == 3

\* the note ids of the references, in document order
CitedSeqs == UNION {[1..n -> {1, 2, 3}] : n \in 0..MaxCited}

\* new elements with these contents: their nodes, and the memory with them
allocate(values, h) ==
    [ids |-> [i \in 1..Len(values) |-> Len(h) + i], heap |-> h \o values]

\* the nodes themselves, no copy made
deepcopy_alias(ids, h) == [ids |-> ids, heap |-> h]

\* copy.deepcopy of each of the elements at ids: new nodes with equal content
deepcopy(ids, h) == allocate([i \in 1..Len(ids) |-> h[ids[i]]], h)

\* the runs of a note, as endnote.findall(.//w:p) and para.findall(.//w:r) list them
runsOfNote(note) ==
    LET paras == keep(note.children, LAMBDA e : e.tag = "p")
    IN  concat([p \in 1..Len(paras) |->
                   [i \in 1..Len(runsOf(paras[p])) |-> runsOf(paras[p])[i].run]])

\* root.findall(.//w:endnote) without the separators: the notes _read_endnotes reads
notesOfRoot(endnotes_body) ==
    keep(endnotes_body, LAMBDA e : e.tag = "endnote" /\ e.id \notin SeparatorIds)

\* ET.parse of endnotes.xml: every run of every note is a node of its own
RECURSIVE parseNotes(_, _, _)
parseNotes(notes, h, nodes) ==
    IF notes = <<>> THEN [heap |-> h, nodes |-> nodes]
    ELSE LET made == allocate(runsOfNote(Head(notes)), h)
         IN  parseNotes(Tail(notes), made.heap, (Head(notes).id :> made.ids) @@ nodes)

\* the loop of _read_endnotes over the notes of the root: content_runs of each
\* note holds a copy of every run that is not the run of the note number
RECURSIVE readNodes(_, _, _, _)
readNodes(ids, nodes, h, runs) ==
    IF ids = <<>> THEN [heap |-> h, content_runs |-> runs]
    ELSE LET kept == keep(nodes[Head(ids)],
                          LAMBDA n : keep(h[n].rest, LAMBDA e : e.tag = "endnoteRef") = <<>>)
             made == deepcopy(kept, h)
         IN  readNodes(Tail(ids), nodes, made.heap, (Head(ids) :> made.ids) @@ runs)

\* the note ids _append_notes_to_document writes a paragraph for, in its order
notedInOrder(ids, runs) ==
    LET sorted_refs == sortedRefs([i \in 1..Len(ids) |-> [note_id |-> ids[i]]])
    IN  keep([i \in 1..Len(sorted_refs) |-> sorted_refs[i].note_id],
             LAMBDA id : id \in DOMAIN runs)

\* _create_incipit_paragraph for a note: the runs it creates are new nodes,
\* the runs of the note are copies of content_runs (the incipit is not looked at)
paragraphNodes(note_id, runs, h) ==
    LET created == _create_incipit_paragraph(IncipitRef(note_id), See, <<>>, <<>>, "bold").children
    IN  IF runs # <<>>
        THEN LET fields == allocate(SubSeq(created, 1, Len(created) - 1), h)
                 copies == deepcopy(runs, fields.heap)
             IN  [ids |-> fields.ids \o copies.ids, heap |-> copies.heap]
        ELSE allocate(created, h)

\* the endnotes part is parsed; the references are known
HeapInit ==
    /\ \E body \in EndnoteBodies :
          LET parsed == parseNotes(notesOfRoot(body), <<>>, <<>>)
          IN  /\ heap = parsed.heap
              /\ endnote_nodes = parsed.nodes
              /\ endnotes_root = [k \in 1..Len(notesOfRoot(body)) |-> notesOfRoot(body)[k].id]
    /\ cited_ids \in CitedSeqs
    /\ content_runs = <<>>
    /\ note_nodes = <<>>
    /\ heap_pc = "_read_endnotes"
    /\ ExIdle /\ RelIdle /\ LinkIdle /\ DocIdle /\ ConcIdle /\ TrIdle

\* _read_endnotes
ReadEndnoteNodes ==
    /\ heap_pc = "_read_endnotes"
    /\ LET read == readNodes(endnotes_root, endnote_nodes, heap, <<>>)
       IN  /\ heap' = read.heap
           /\ content_runs' = read.content_runs
    /\ heap_pc' = "_append_notes_to_document"
    /\ UNCHANGED <<endnote_nodes, endnotes_root, note_nodes, cited_ids>>
    /\ UNCHANGED <<exVars, relVars, linkVars, docVars, concVars, trVars>>

\* one turn of the loop of _append_notes_to_document
AppendNoteParagraph ==
    /\ heap_pc = "_append_notes_to_document"
    /\ Len(note_nodes) < Len(notedInOrder(cited_ids, content_runs))
    /\ LET note_id == notedInOrder(cited_ids, content_runs)[Len(note_nodes) + 1]
           para == paragraphNodes(note_id, content_runs[note_id], heap)
       IN  /\ heap' = para.heap
           /\ note_nodes' = Append(note_nodes, [note_id |-> note_id, runs |-> para.ids])
    /\ UNCHANGED <<endnote_nodes, endnotes_root, content_runs, cited_ids, heap_pc>>
    /\ UNCHANGED <<exVars, relVars, linkVars, docVars, concVars, trVars>>

\* _clear_endnotes, the notes all written: the notes are removed from the root
ClearEndnoteNodes ==
    /\ heap_pc = "_append_notes_to_document"
    /\ Len(note_nodes) = Len(notedInOrder(cited_ids, content_runs))
    /\ endnotes_root' = <<>>
    /\ heap_pc' = "returned"
    /\ UNCHANGED <<heap, endnote_nodes, content_runs, note_nodes, cited_ids>>
    /\ UNCHANGED <<exVars, relVars, linkVars, docVars, concVars, trVars>>

\* a later edit of the output: the text of one run of one note paragraph is set
EditNoteRun ==
    /\ heap_pc = "returned"
    /\ \E k \in 1..Len(note_nodes) : \E i \in 1..Len(note_nodes[k].runs) :
          heap' = [heap EXCEPT ![note_nodes[k].runs[i]].text = <<"e", "d", "i", "t">>]
    /\ heap_pc' = "edited"
    /\ UNCHANGED <<endnote_nodes, endnotes_root, content_runs, note_nodes, cited_ids>>
    /\ UNCHANGED <<exVars, relVars, linkVars, docVars, concVars, trVars>>

NextHeap ==
    \/ ReadEndnoteNodes
    \/ AppendNoteParagraph
    \/ ClearEndnoteNodes
    \/ EditNoteRun
SpecHeap == HeapInit /\ [][NextHeap]_vars
(***************************************************************************)
(* Claims about extract_incipit (SpecExtract)                              *)
(***************************************************************************)
ExDone == ex_pc = "done"

\* C7: every incipit returned by extract_incipit is non-empty and either
\* equals the fallback phrase "See" or has at least two words.
C7_TwoWordsOrSee ==
    ExDone => (incipit # <<>> /\ (incipit = See \/ wordCount(incipit) >= 2))

\* the first letter of a phrase is upper case (a phrase without letters has none)
FirstLetterUpper(p) ==
    LET L == {i \in 1..Len(p) : IsLetter(p[i])}
    IN  L # {} => p[MinOf(L)] \in UpperSet

NoBoundaryPunctuation(p) ==
    p # <<>> /\ p[1] \notin BoundaryChars /\ p[Len(p)] \notin BoundaryChars

\* C8 as stated: every incipit returned is capitalized (its first letter is
\* upper case) and carries no leading or trailing boundary punctuation,
\* whichever strategy produced the candidate.
C8_CapitalizedAsStated ==
    ExDone => (FirstLetterUpper(incipit) /\ NoBoundaryPunctuation(incipit))

\* C8 amended: every incipit returned does not begin with a lower-case letter
\* (a phrase that begins with a quote mark or another non-letter is returned
\* as it is, lower-case letters after it included) and neither begins nor ends
\* with whitespace, a period, a comma, a semicolon or a colon.
C8_FirstCharNotLower ==
    ExDone => (NoBoundaryPunctuation(incipit) /\ ~islower(incipit[1]))

\* C8 witness: the quote strategy returned a phrase that opens with a quote
\* mark followed by a lower-case letter.
C8_Witness ==
    /\ ExDone
    /\ strategy = "quote"
    /\ Len(incipit) >= 2
    /\ incipit[1] = DQ
    /\ islower(incipit[2])

\* "the world is not enough"
QuoteAlone9 ==
    <<"\"","t","h","e"," ","w","o","r","l","d"," ","i","s"," ","n","o","t",
      " ","e","n","o","u","g","h","\"">>
\* She wrote, "the world is not enough,"
LeadInAndQuote9 ==
    <<"S","h","e"," ","w","r","o","t","e",","," ","\"","t","h","e"," ","w",
      "o","r","l","d"," ","i","s"," ","n","o","t"," ","e","n","o","u","g","h",
      ",","\"">>

Scenario9 ==
    /\ ExDone
    /\ text_before_ref = S_world
    /\ word_count = 3
    /\ used_incipits = {}

\* C9 as stated: for the context  She wrote, "the world is not enough," and
\* paused.  with word_count 3 and no used phrases the quote strategy fires and
\* returns the quoted span alone, without lead-in and without the comma.
C9_QuoteAloneAsStated ==
    Scenario9 => (strategy = "quote" /\ incipit = QuoteAlone9)

\* C9 amended: for that context the quote strategy fires and returns the
\* lead-in with the quoted span, the comma inside the quotes kept:
\* She wrote, "the world is not enough,"
C9_LeadInAndQuote ==
    Scenario9 => (strategy = "quote" /\ incipit = LeadInAndQuote9)

\* C9 witness: the scenario has been extracted.
C9_Witness == Scenario9 /\ incipit # None

\* <Capitalized> v. <Capitalized ...> read case-sensitively except for the v:
\* the end of the citation that starts at 1-based i, or -1
RECURSIVE capPartyEnd(_, _)
capPartyEnd(s, d) ==
    LET e == runEnd(s, d, Letters)
        w == runEnd(s, e, Spaces)
    IN  IF w > e /\ w <= Len(s) /\ s[w] \in UpperSet THEN capPartyEnd(s, w) ELSE e - 1

capCitationEnd(s, i) ==
    LET a == runEnd(s, i, Letters)
        b == runEnd(s, a, Spaces)
        c == b + 2
        d == runEnd(s, c, Spaces)
    IN  IF /\ s[i] \in UpperSet
           /\ (i = 1 \/ ~IsWordChar(s[i - 1]))
           /\ b > a
           /\ b + 1 <= Len(s)
           /\ lower(s[b]) = "v"
           /\ s[b + 1] = "."
           /\ d > c
           /\ d <= Len(s)
           /\ s[d] \in UpperSet
        THEN capPartyEnd(s, d)
        ELSE -1

\* the capitalized citations of the context that end within its last 80 characters
citationsNearEnd(context) ==
    {SubSeq(context, i, capCitationEnd(context, i)) :
        i \in {j \in 1..Len(context) : /\ capCitationEnd(context, j) >= 0
                                        /\ capCitationEnd(context, j) > Len(context) - 80}}

\* C10: when the quote strategy does not apply, the legal-citation strategy
\* yields the incipit exactly when the context contains a
\* <Capitalized> v. <Capitalized...> citation that ends within the last 80
\* characters, and the phrase is that citation cut at the first stop word.
C10_LegalExactlyWhenCitation ==
    LET context == _normalize_text(text_before_ref)
        cited == citationsNearEnd(context)
    IN  (ExDone /\ strategy \notin {"empty", "quote"}) =>
            /\ (strategy = "legal") <=> (cited # {})
            /\ strategy = "legal" =>
                 \E c \in cited : incipit = _finalize_incipit(join(cleanedWords(split(c))))


(***************************************************************************)
(* Claims about RelsManager (SpecRels)                                     *)
(***************************************************************************)
\* the ids of the hyperlink relationships of a manager whose target is url
hyperlinkIds(rm, url) ==
    {id \in DOMAIN rm.relationships :
        /\ rm.relationships[id].type = HYPERLINK_TYPE
        /\ rm.relationships[id].target = url}

\* the URLs that are the target of a hyperlink relationship of a manager
hyperlinkTargets(rm) ==
    {rm.relationships[id].target :
        id \in {i \in DOMAIN rm.relationships : rm.relationships[i].type = HYPERLINK_TYPE}}

CalledUrls == {calls[k].url : k \in 1..Len(calls)}

\* C3 as stated: after add_hyperlink calls on a manager loaded from any
\* existing table, each distinct URL is the target of exactly one hyperlink
\* relationship id.
C3_OneIdPerUrl ==
    (rm_pc \in {"open", "saved"} /\ calls # <<>>) =>
        \A url \in hyperlinkTargets(rels_manager) :
            Cardinality(hyperlinkIds(rels_manager, url)) = 1

\* C3 amended: add_hyperlink never adds an entry for a URL that is already a
\* hyperlink target. A URL the loaded table held keeps exactly the ids it had
\* there (several, when the table held several), a URL it did not hold gets
\* exactly one id at its first call, every call returns an id whose
\* relationship is a hyperlink to the URL asked for, and every later call for
\* that URL returns the same id.
C3_ReusesExistingId ==
    rm_pc \in {"open", "saved"} =>
        /\ \A url \in Urls \cup hyperlinkTargets(loaded) :
              hyperlinkIds(rels_manager, url) =
                  IF hyperlinkIds(loaded, url) # {} THEN hyperlinkIds(loaded, url)
                  ELSE IF url \in CalledUrls
                  THEN {calls[MinOf({k \in 1..Len(calls) : calls[k].url = url})].r_id}
                  ELSE {}
        /\ \A k \in 1..Len(calls) : calls[k].r_id \in hyperlinkIds(rels_manager, calls[k].url)
        /\ \A j, k \in 1..Len(calls) : calls[j].url = calls[k].url => calls[j].r_id = calls[k].r_id
        /\ Cardinality(DOMAIN rels_manager.relationships) =
              Cardinality(DOMAIN loaded.relationships)
                  + Cardinality({url \in CalledUrls : hyperlinkIds(loaded, url) = {}})

\* C3 witness: a saved manager that was asked twice for a URL the loaded
\* table did not hold and once for a URL it held.
C3_Witness ==
    /\ rm_pc = "saved"
    /\ \E j, k \in 1..Len(calls) :
          j < k /\ calls[j].url = calls[k].url /\ hyperlinkIds(loaded, calls[j].url) = {}
    /\ \E k \in 1..Len(calls) : hyperlinkIds(loaded, calls[k].url) # {}

(***************************************************************************)
(* Claims about activate_links (SpecLinks)                                 *)
(***************************************************************************)
\* the paragraphs of a part, those inside notes included
RECURSIVE paragraphsIn(_)
paragraphsIn(elems) ==
    IF elems = <<>> THEN <<>>
    ELSE LET e == Head(elems)
         IN  (IF e.tag = "p" THEN <<e>>
              ELSE IF e.tag \in {"endnote", "footnote"} THEN paragraphsIn(e.children)
              ELSE <<>>) \o paragraphsIn(Tail(elems))

\* the hyperlink elements that are children of the paragraphs of a part
hyperlinksIn(part) ==
    LET paras == paragraphsIn(part.body)
    IN  concat([p \in 1..Len(paras) |-> keep(paras[p].children, LAMBDA c : c.tag = "hyperlink")])

NoNestedHyperlink(part) ==
    \A k \in 1..Len(hyperlinksIn(part)) :
        \A j \in 1..Len(hyperlinksIn(part)[k].children) :
            hyperlinksIn(part)[k].children[j].tag # "hyperlink"

\* C2: activate_links applied to its own output returns it unchanged: the
\* second pass adds no relationship to the table of any part and wraps no
\* further run, and no hyperlink of the output holds a hyperlink.
C2_SecondPassChangesNothing ==
    passes >= 2 =>
        /\ package = first_output
        /\ \A n \in PartNames :
              /\ package[n].rels = first_output[n].rels
              /\ hyperlinksIn(package[n]) = hyperlinksIn(first_output[n])
              /\ NoNestedHyperlink(package[n])

\* C2 witness: two passes were made over a document in which the first pass
\* wrapped the second URL and minted a relationship for it, next to a
\* hyperlink that was there before.
C2_Witness ==
    /\ passes = 2
    /\ \E k \in 1..Len(hyperlinksIn(package["document"])) :
          LET h == hyperlinksIn(package["document"])[k]
          IN  h.children[1].text = UrlB /\ h.r_id.name = "rId"
    /\ \E k \in 1..Len(package["document"].rels.table) :
          LET r == package["document"].rels.table[k]
          IN  r.Target = UrlB /\ r.Id.name = "rId"
    /\ \E k \in 1..Len(hyperlinksIn(package["document"])) :
          hyperlinksIn(package["document"])[k] = Hyperlink(rId(1), <<Run({}, UrlA, <<>>)>>)

(***************************************************************************)
(* Claims about process_document (SpecDoc)                                 *)
(***************************************************************************)
DocReturned == dp_pc = "returned"

\* the children of the paragraphs of a body, in document order
childrenIn(body) ==
    LET paras == paragraphsOf(body)
    IN  concat([p \in 1..Len(paras) |-> paras[p].children])

\* the bookmark-start elements of a body
bookmarkStartsIn(body) == keep(childrenIn(body), LAMBDA c : c.tag = "bookmarkStart")

\* the bookmark a paragraph refers to with a PAGEREF field, as a set
pagerefsOf(para) ==
    LET runs == keep(para.children, LAMBDA c : c.tag = "r")
        fields(r) == keep(r.rest, LAMBDA e : e.tag = "instrText")
    IN  UNION {{fields(runs[i])[k].bookmark : k \in 1..Len(fields(runs[i]))} :
                  i \in 1..Len(runs)}

\* the note paragraphs of a body: those that hold a PAGEREF field
noteParagraphsIn(body) == keep(paragraphsOf(body), LAMBDA p : pagerefsOf(p) # {})

\* C1: after process_document no two bookmark-start elements of the output
\* body carry the same bookmark name, whatever the markers and their note ids.
C1_BookmarkNamesUnique ==
    DocReturned =>
        LET starts == bookmarkStartsIn(result.document.body)
        IN  \A i, j \in 1..Len(starts) : i # j => starts[i].name # starts[j].name

\* the form _is_duplicate compares: lower case, punctuation removed, spaces collapsed
nearDuplicate(a, b) ==
    LET na == _normalize_for_comparison(a)
        nb == _normalize_for_comparison(b)
    IN  na = nb \/ contains(na, nb) \/ contains(nb, na)

\* C4: the normalized forms of any two incipits of one conversion are
\* neither equal nor one inside the other, whichever strategy produced them;
\* only an incipit the thought-unit strategy or the one after it had to
\* settle for is exempt (and the phrase See given for an empty context).
C4_NoNearDuplicates ==
    DocReturned =>
        \A i, j \in 1..Len(references) :
            (i < j /\ strategies[j] \notin {"empty", "thought", "fallback"}) =>
                ~nearDuplicate(references[i].incipit, references[j].incipit)

\* C5: a reference whose note id has no endnote content gets no bookmark:
\* every bookmark the transformation added to the body is the target of the
\* PAGEREF field of a note paragraph of the notes section.
C5_NoDanglingBookmark ==
    DocReturned =>
        LET starts == bookmarkStartsIn(result.document.body)
            notes == noteParagraphsIn(result.document.body)
        IN  \A i \in 1..Len(starts) :
                \E k \in 1..Len(notes) : starts[i].name \in pagerefsOf(notes[k])

\* the endnote elements of a part that are not separators
realNotes(endnotes_body) ==
    keep(endnotes_body, LAMBDA e : e.tag = "endnote" /\ e.id \notin SeparatorIds)

\* a note paragraph of the body carries the runs of the note: it refers to the
\* bookmark of the note id and ends with copies of the runs of the note
relocated(note, body) ==
    LET runs == _extract_endnote_content_with_runs(note).content_runs
        notes == noteParagraphsIn(body)
    IN  \E k \in 1..Len(notes) :
            /\ IncipitRef(note.id) \in pagerefsOf(notes[k])
            /\ Len(notes[k].children) >= Len(runs)
            /\ SubSeq(notes[k].children, Len(notes[k].children) - Len(runs) + 1,
                      Len(notes[k].children)) = runs

\* C6: after the transformation the endnotes part holds only the separator
\* entries (ids -1 and 0), and for every note removed from it a note paragraph
\* with copies of its runs exists in the notes section of the output body.
C6_RemovedNotesRelocated ==
    DocReturned =>
        /\ realNotes(result.endnotes.body) = <<>>
        /\ \A k \in 1..Len(realNotes(docx.endnotes.body)) :
              relocated(realNotes(docx.endnotes.body)[k], result.document.body)

(***************************************************************************)
(* Claims about the split of a run at its URLs (SpecLinks)                 *)
(***************************************************************************)
\* the trailing punctuation C11 lists: . , ; : ) ] or a quote mark
C11_Punctuation == {".", ",", ";", ":", ")", "]", SQ, DQ}

\* the URL of a match without its trailing punctuation
claimedUrl(text, m) == rstripSet(Slice(text, m.start, m.end), C11_Punctuation)

\* what C11 says takes the place of a run with this text: a plain run for the
\* text before each URL, a link whose target and display text are the URL
\* without its punctuation, a plain run for the punctuation and what follows
RECURSIVE claimedSegments(_, _, _)
claimedSegments(text, matches, last_end) ==
    IF matches = <<>>
    THEN IF last_end < Len(text)
         THEN <<[kind |-> "plain", text |-> From(text, last_end), target |-> <<>>]>>
         ELSE <<>>
    ELSE (IF Head(matches).start > last_end
          THEN <<[kind |-> "plain", text |-> Slice(text, last_end, Head(matches).start),
                  target |-> <<>>]>>
          ELSE <<>>)
         \o <<[kind |-> "link", text |-> claimedUrl(text, Head(matches)),
               target |-> claimedUrl(text, Head(matches))]>>
         \o claimedSegments(text, Tail(matches),
                            Head(matches).start + Len(claimedUrl(text, Head(matches))))

\* whether a child of a paragraph is a run whose text holds a URL
holdsUrl(c) == c.tag = "r" /\ urlMatches(c.text, 1) # <<>>

\* the Target of the relationship with this id in a saved table
targetOf(table, r_id) ==
    LET K == {k \in 1..Len(table) : table[k].Id = r_id}
    IN  IF K = {} THEN <<>> ELSE table[CHOOSE k \in K : TRUE].Target

\* whether an element of the output is the segment claimed
isSegment(e, seg, table) ==
    IF seg.kind = "plain"
    THEN e.tag = "r" /\ e.text = seg.text /\ e.rest = <<>>
    ELSE /\ e.tag = "hyperlink"
         /\ Len(e.children) = 1
         /\ e.children[1].tag = "r"
         /\ e.children[1].text = seg.text
         /\ targetOf(table, e.r_id) = seg.target

\* whether the children written are the children read, each run that holds a
\* URL replaced where it stood by the segments claimed
RECURSIVE childrenAsClaimed(_, _, _)
segmentsAsClaimed(segs, written, table) ==
    /\ Len(written) >= Len(segs)
    /\ \A k \in 1..Len(segs) : isSegment(written[k], segs[k], table)
childrenAsClaimed(read, written, table) ==
    IF read = <<>> THEN written = <<>>
    ELSE IF holdsUrl(Head(read))
    THEN /\ segmentsAsClaimed(claimedSegments(Head(read).text, urlMatches(Head(read).text, 1), 0),
                              written, table)
         /\ childrenAsClaimed(Tail(read),
                From(written, Len(claimedSegments(Head(read).text,
                                                  urlMatches(Head(read).text, 1), 0))),
                table)
    ELSE /\ written # <<>>
         /\ Head(written) = Head(read)
         /\ childrenAsClaimed(Tail(read), Tail(written), table)

\* the URLs, without their punctuation, of the runs of a part that hold one
urlsOfRun(c) ==
    {claimedUrl(c.text, urlMatches(c.text, 1)[k]) : k \in 1..Len(urlMatches(c.text, 1))}
urlsOfPart(part) ==
    UNION {UNION {urlsOfRun(paragraphsIn(part.body)[p].children[i]) :
                    i \in {j \in 1..Len(paragraphsIn(part.body)[p].children) :
                             holdsUrl(paragraphsIn(part.body)[p].children[j])}} :
           p \in 1..Len(paragraphsIn(part.body))}

\* the Relationship elements of a .rels file: none when it does not parse
entriesOf(file) == IF parseError(file.table) = "" THEN file.table ELSE <<>>

\* the targets of the hyperlink relationships of a .rels file
linkedIn(file) ==
    {entriesOf(file)[k].Target :
        k \in {j \in 1..Len(entriesOf(file)) : entriesOf(file)[j].Type = HYPERLINK_TYPE}}

\* whether the call of activate_links on these parts goes through: every
\* part that exists parses, and no .rels file makes RelsManager raise
goesThrough(parts) ==
    \A n \in PartNames :
        parts[n].present =>
            /\ parts[n].body \notin {NotWellFormed, UnknownEncoding}
            /\ parts[n].rels.table # UnknownEncoding

partAsClaimed(read, written) ==
    /\ written.present
    /\ Len(paragraphsIn(written.body)) = Len(paragraphsIn(read.body))
    /\ \A p \in 1..Len(paragraphsIn(read.body)) :
          childrenAsClaimed(paragraphsIn(read.body)[p].children,
                            paragraphsIn(written.body)[p].children,
                            written.rels.table)
    /\ Len(written.rels.table) =
          Len(entriesOf(read.rels)) + Cardinality(urlsOfPart(read) \ linkedIn(read.rels))

\* C11: a pass of activate_links that goes through replaces every direct-child run whose text
\* holds a URL, where it stood, by a plain run with the text before the URL,
\* a hyperlink whose relationship target and display text are the URL without
\* its trailing punctuation, and a plain run with that punctuation and the
\* text after it; every other child is left as it was, and the relationship
\* table of the part grows by exactly one entry per URL it did not hold.
C11_RunSplitAtUrl ==
    [][(ActivateLinks /\ goesThrough(package)) =>
         \A n \in PartNames : package[n].present => partAsClaimed(package[n], package'[n])]_vars

\* C11 witness: the first pass has turned the run "at https://b, ok" of a
\* document whose table was empty into the run "at ", a link to https://b
\* under a new id, and the run ", ok"
C11_Witness ==
    /\ passes = 1
    /\ Len(first_output["document"].rels.table) = 1
    /\ \E i \in 1..Len(first_output["document"].body[1].children) :
          LET cs == first_output["document"].body[1].children
          IN  /\ i + 2 <= Len(cs)
              /\ cs[i].tag = "r" /\ cs[i].text = <<"a","t"," ">>
              /\ cs[i + 1].tag = "hyperlink"
              /\ cs[i + 1].children[1].text = UrlB
              /\ cs[i + 1].r_id = rId(1)
              /\ targetOf(first_output["document"].rels.table, rId(1)) = UrlB
              /\ cs[i + 2].tag = "r" /\ cs[i + 2].text = <<",", " ", "o", "k">>

(***************************************************************************)
(* Claims about the ids of the bookmarks (SpecDoc)                         *)
(***************************************************************************)
\* the ids of the bookmarkStart and of the bookmarkEnd elements of a body,
\* one entry per element
bookmarkStartIds(body) ==
    LET cs == keep(childrenIn(body), LAMBDA c : c.tag = "bookmarkStart")
    IN  [k \in 1..Len(cs) |-> cs[k].id]
bookmarkEndIds(body) ==
    LET cs == keep(childrenIn(body), LAMBDA c : c.tag = "bookmarkEnd")
    IN  [k \in 1..Len(cs) |-> cs[k].id]

\* how many entries of a sequence equal v
occurrences(s, v) == Cardinality({k \in 1..Len(s) : s[k] = v})

\* the ids transform has drawn from bookmark_counter
assignedIds == FirstBookmarkId..(bookmark_counter - 1)

\* C12 as stated: every bookmark id transform assigns is used by exactly one
\* bookmarkStart/bookmarkEnd pair of the output and is greater than every
\* bookmark id the input document already held.
C12_AssignedIdsFresh ==
    DocReturned =>
        \A id \in assignedIds :
            /\ occurrences(bookmarkStartIds(result.document.body), id) = 1
            /\ occurrences(bookmarkEndIds(result.document.body), id) = 1
            /\ \A k \in 1..Len(bookmarkStartIds(docx.document.body)) :
                  bookmarkStartIds(docx.document.body)[k] < id

(***************************************************************************)
(* Claims about errors and the scratch directory                           *)
(***************************************************************************)
\* a call of activate_links has ended
LinksEnded == link_pc \in {"returned", "raised"}

\* whether the bytes activate_links was given are no archive, or an archive
\* with a targeted part that is not well-formed XML; the call returns such
\* bytes as they were, so package still holds them
malformedPackage ==
    \/ ~link_zip
    \/ \E n \in PartNames : package[n].present /\ package[n].body = NotWellFormed

\* C13 as stated, for activate_links: a call on a package whose archive cannot
\* be opened or whose targeted XML part cannot be parsed ends in an error, and
\* no bytes are returned to the caller.
C13_MalformedPackageRaises ==
    (LinksEnded /\ malformedPackage) => link_pc = "raised"

\* a call of process_document has ended
DocEnded == dp_pc \in {"returned", "raised"}

\* the same for process_document, which does raise
TransformRaisesOnMalformed ==
    (DocEnded /\ (~docx.zip \/ docx.document.body = NotWellFormed
                             \/ docx.endnotes.body = NotWellFormed))
        => dp_pc = "raised" /\ result = NoArchive

\* C14: on an archive that lacks word/document.xml, or that holds it but
\* lacks word/endnotes.xml, process_document ends in an exception and returns
\* nothing, and no step after the parsing runs: no reference is found, no
\* note read, no bookmark inserted, no file saved, no archive written.
C14_MissingPartRaises ==
    (docx.zip /\ (~docx.document.present \/ ~docx.endnotes.present)) =>
        /\ dp_pc \in {"_parse_xml_files", "raised"}
        /\ result = NoArchive
        /\ references = <<>>
        /\ endnotes = <<>>
        /\ endnotes_xml = <<>>
        /\ bookmark_counter = FirstBookmarkId
        /\ files = NoFiles

\* C14 witness: the call on an archive with a body part and no endnotes part
\* has raised
C14_Witness ==
    /\ dp_pc = "raised"
    /\ docx.zip /\ docx.document.present /\ ~docx.endnotes.present
    /\ result = NoArchive

\* whether the .rels file of a part exists and does not parse
unparsableRels(part) == part.rels.present /\ parseError(part.rels.table) # ""

\* the part as it is with a .rels file that holds an empty table
withEmptyTable(part) == [part EXCEPT !.rels = [present |-> TRUE, table |-> <<>>]]

\* C15 as stated: when the .rels file of a part is present and does not
\* parse, the call of activate_links on an archive whose parts parse goes
\* through and writes the part as it writes it with an empty relationship
\* table: its URLs are hyperlinks under newly minted ids.
C15_UnparsableRelsAbsorbed ==
    [][(/\ ActivateLinks
        /\ \A m \in PartNames : package[m].present => parseError(package[m].body) = "")
           => \A n \in PartNames :
                 (package[n].present /\ unparsableRels(package[n]))
                    => package'[n] = _process_xml_file(withEmptyTable(package[n]))]_vars

C17_OtherPartsUntouched ==
    DocReturned =>
        /\ DOMAIN result.others = DOMAIN docx.others
        /\ \A name \in DOMAIN docx.others : result.others[name] = docx.others[name]
        /\ result.zip
        /\ result.document.present
        /\ result.endnotes.present

\* C17 witness: an archive with a styles part was returned with its body
\* rewritten
C17_Witness ==
    /\ DocReturned
    /\ "word/styles.xml" \in DOMAIN docx.others
    /\ result.document.body # docx.document.body
    /\ result.endnotes.body # docx.endnotes.body

(***************************************************************************)
(* Claims about concurrent conversions (SpecConcurrent)                    *)
(***************************************************************************)
\* what activate_links returns for these bytes when no other call runs
alone(docx_bytes) ==
    Bytes(process_links(docx_bytes.package), {NS[k] : k \in 1..Len(NS)})

\* C18 as stated: whatever the interleaving of the calls, each call returns
\* what it returns when it runs alone.
C18_InterleavedAsAlone ==
    \A t \in Threads :
        threads[t].pc = "returned" => threads[t].returned = alone(threads[t].docx_bytes)

(***************************************************************************)
(* The layout of the body after the transformation (SpecDoc)               *)
(***************************************************************************)
\* the number of children of a body that precede its section properties
beforeSectPr(body) ==
    LET S == {i \in 1..Len(body) : body[i].tag = "sectPr"}
    IN  IF S = {} THEN Len(body) ELSE MinOf(S) - 1

\* the note ids of the input that have an endnote
notedIds == {realNotes(docx.endnotes.body)[k].id : k \in 1..Len(realNotes(docx.endnotes.body))}

\* the markers of the input body that have an endnote, as note ids in document order
notedMarkers ==
    LET found == _find_endnote_references(docx.document.body)
    IN  keep([i \in 1..Len(found) |-> found[i].note_id], LAMBDA id : id \in notedIds)

\* the paragraphs that follow the heading are one note paragraph per noted
\* marker, in ascending order of note id
notesAsClaimed(paras) ==
    /\ Len(paras) = Len(notedMarkers)
    /\ \A k \in 1..Len(paras) :
          /\ paras[k].tag = "p"
          /\ \E id \in notedIds : pagerefsOf(paras[k]) = {IncipitRef(id)}
    /\ \A id \in notedIds :
          Cardinality({k \in 1..Len(paras) : pagerefsOf(paras[k]) = {IncipitRef(id)}})
              = Cardinality({i \in 1..Len(notedMarkers) : notedMarkers[i] = id})
    /\ \A j, k \in 1..Len(paras) :
          j < k => \A a, b \in notedIds :
                      (IncipitRef(a) \in pagerefsOf(paras[j])
                          /\ IncipitRef(b) \in pagerefsOf(paras[k])) => a <= b

\* C19: after the transformation the body holds, in order, the children that
\* preceded the section properties, a page-break paragraph, a Notes heading,
\* one note paragraph per reference that has an endnote in ascending order of
\* note id, and last the section properties; without section properties the
\* same paragraphs are at the very end.
C19_NotesSectionLayout ==
    DocReturned =>
        LET orig == docx.document.body
            body == result.document.body
            n == beforeSectPr(orig)
        IN  /\ Len(body) = Len(orig) + 2 + Len(notedMarkers)
            /\ \A i \in 1..n : /\ body[i].tag = orig[i].tag
                               /\ paraText(body[i]) = paraText(orig[i])
            /\ body[n + 1] = _create_page_break_paragraph
            /\ body[n + 2] = _create_notes_heading
            /\ notesAsClaimed(SubSeq(body, n + 3, n + 2 + Len(notedMarkers)))
            /\ \A i \in (n + 1)..Len(orig) : body[i + 2 + Len(notedMarkers)] = orig[i]

\* a returned archive whose body has two noted markers out of numeric order,
\* before section properties
C19_Witness ==
    /\ DocReturned
    /\ Len(notedMarkers) >= 2
    /\ notedMarkers[1] > notedMarkers[2]
    /\ beforeSectPr(docx.document.body) < Len(docx.document.body)

\* the names of the bookmark-start elements among children and, through the
\* wrappers that have children of their own, below them
RECURSIVE bookmarkNamesBelow(_)
bookmarkNamesBelow(children) ==
    IF children = <<>> THEN {}
    ELSE LET c == Head(children)
         IN  (IF c.tag = "bookmarkStart" THEN {c.name}
              ELSE IF c.tag = "hyperlink" THEN bookmarkNamesBelow(c.children)
              ELSE {})
             \cup bookmarkNamesBelow(Tail(children))

\* the names of all the bookmarks of a body
bookmarkNamesIn(body) == bookmarkNamesBelow(childrenIn(body))

\* C20: after the transformation every PAGEREF field in the notes section
\* names a bookmark that exists in the output body, whether the run of the
\* marker is a child of its paragraph or sits inside a hyperlink or another
\* wrapper element.
C20_PagerefTargetsExist ==
    DocReturned =>
        LET notes == noteParagraphsIn(result.document.body)
        IN  \A k \in 1..Len(notes) :
                pagerefsOf(notes[k]) \subseteq bookmarkNamesIn(result.document.body)

(***************************************************************************)
(* The marker pass of the transformation (SpecDoc)                         *)
(***************************************************************************)
\* the siblings of the run at a path of a paragraph: the children of the
\* paragraph, or of the hyperlink the run is in
siblingsAt(para, path) ==
    IF Len(path) = 1 THEN para.children ELSE para.children[path[1]].children

\* the run the scan recorded for ref has, in the output paragraph, the
\* bookmark-start of ref just before it and the matching bookmark-end just after
surrounded(body, ref) ==
    LET para == paragraphsOf(body)[ref.paragraph_index + 1]
        path == runsOf(para)[ref.run_index + 1].path
        siblings == siblingsAt(para, path)
        at == path[Len(path)]
    IN  /\ at > 1 /\ at < Len(siblings)
        /\ siblings[at - 1].tag = "bookmarkStart"
        /\ siblings[at - 1].name = IncipitRef(ref.note_id)
        /\ siblings[at + 1].tag = "bookmarkEnd"
        /\ siblings[at + 1].id = siblings[at - 1].id

\* C21: for every reference the transformation applied, the run of the marker
\* has the bookmark-start with the bookmark name of the reference as its
\* immediately preceding sibling and the bookmark-end with the same id as its
\* immediately following sibling, also with several markers in one paragraph.
C21_BookmarkSurroundsRun ==
    DocReturned =>
        \A k \in 1..Len(references) : surrounded(result.document.body, references[k])

\* the same for the references whose run is a child of its paragraph
DirectChildSurrounded ==
    DocReturned =>
        \A k \in 1..Len(references) :
            LET ref == references[k]
                para == paragraphsOf(docx.document.body)[ref.paragraph_index + 1]
            IN  Len(runsOf(para)[ref.run_index + 1].path) = 1
                    => surrounded(result.document.body, ref)

(***************************************************************************)
(* The loop of _transform_main_document (SpecTransform)                    *)
(***************************************************************************)
\* the loop taken one reference at a time leaves the body and the counter the
\* whole loop leaves
LoopAsWhole ==
    (dp_pc = "_transform_main_document" /\ pending = 0) =>
        LET whole == _transform_main_document(scanned, FirstBookmarkId, references)
        IN  document_xml = whole.body /\ bookmark_counter = whole.counter

\* the references are in document order: by paragraph, then by run
inDocumentOrder(refs) ==
    \A i, j \in 1..Len(refs) :
        i < j => \/ refs[i].paragraph_index < refs[j].paragraph_index
                 \/ /\ refs[i].paragraph_index = refs[j].paragraph_index
                    /\ refs[i].run_index < refs[j].run_index

\* the runs of the k-th paragraph (0-based) of a body, as findall lists them
runsAt(body, k) ==
    LET runs == runsOf(paragraphsOf(body)[k + 1])
    IN  [i \in 1..Len(runs) |-> runs[i].run]

\* the run at the recorded place of ref is the run the scan saw there: the
\* paragraph lists as many runs as at scan time, and the runs up to and
\* including the recorded one are as the scan saw them
sameRunAsScanned(body, ref) ==
    LET now == runsAt(body, ref.paragraph_index)
        then == runsAt(scanned, ref.paragraph_index)
    IN  /\ Len(now) = Len(then)
        /\ ref.run_index < Len(now)
        /\ SubSeq(now, 1, ref.run_index + 1) = SubSeq(then, 1, ref.run_index + 1)
        /\ markersOf(now[ref.run_index + 1]) # <<>>
        /\ markersOf(now[ref.run_index + 1])[1].id = ref.note_id

\* the reference has been applied: its run holds no marker any more
applied(body, ref) == markersOf(runsAt(body, ref.paragraph_index)[ref.run_index + 1]) = <<>>

\* C22: the references are applied in reverse document order, and at the
\* moment a reference is applied the run at its recorded paragraph and run
\* index is the run that held its marker at scan time, whatever was already
\* done for the references after it.
C22_PositionsStayValid ==
    [][ApplyReference =>
          /\ inDocumentOrder(references)
          /\ pending' = pending - 1
          /\ \A k \in 1..Len(references) :
                /\ k > pending => applied(document_xml, references[k])
                /\ k <= pending => sameRunAsScanned(document_xml, references[k])
          /\ applied(document_xml', references[pending])]_vars

\* the loop is about to take a reference of a paragraph in which a later
\* marker has already been replaced
C22_Witness ==
    /\ dp_pc = "_transform_main_document"
    /\ pending > 0 /\ pending < Len(references)
    /\ references[pending].paragraph_index = references[pending + 1].paragraph_index
    /\ sameRunAsScanned(document_xml, references[pending])

\* a run as the marker pass may leave it: nothing but its markers removed
withoutMarkers(run) ==
    [run EXCEPT !.rest = keep(run.rest, LAMBDA e : e.tag # "endnoteReference")]

\* the runs the references recorded in the k-th paragraph (0-based), as
\* 0-based run indexes
recordedRuns(k) ==
    {references[i].run_index : i \in {j \in 1..Len(references) :
                                          references[j].paragraph_index = k}}

\* the marker pass is over
MarkerPassDone == dp_pc = "_transform_main_document" /\ pending = 0

\* C23: applying a reference removes only the marker element of its run: the
\* body has the same runs in the same order before and after the marker pass,
\* a run left empty included, and every other child of every run is unchanged.
C23_OnlyMarkerRemoved ==
    MarkerPassDone =>
        /\ Len(paragraphsOf(document_xml)) = Len(paragraphsOf(scanned))
        /\ \A k \in 0..(Len(paragraphsOf(scanned)) - 1) :
              LET now == runsAt(document_xml, k)
                  then == runsAt(scanned, k)
              IN  /\ Len(now) = Len(then)
                  /\ \A i \in 1..Len(then) :
                        now[i] = IF i - 1 \in recordedRuns(k) THEN withoutMarkers(then[i])
                                 ELSE then[i]

\* the marker pass is over for a body with a run that held a tab and a
\* marker, and with a run that held nothing but its marker
C23_Witness ==
    /\ MarkerPassDone
    /\ \E k \in 0..(Len(paragraphsOf(scanned)) - 1) :
          \E i \in 1..Len(runsAt(scanned, k)) :
              /\ i - 1 \in recordedRuns(k)
              /\ runsAt(document_xml, k)[i].rest = <<[tag |-> "tab"]>>
    /\ \E k \in 0..(Len(paragraphsOf(scanned)) - 1) :
          \E i \in 1..Len(runsAt(scanned, k)) :
              /\ i - 1 \in recordedRuns(k)
              /\ runsAt(document_xml, k)[i].rest = <<>>

(***************************************************************************)
(* Ownership of the runs of the note paragraphs (SpecHeap)                 *)
(***************************************************************************)
\* the nodes of a sequence of nodes, as a set
nodeSet(ids) == {ids[i] : i \in 1..Len(ids)}

\* the nodes of the parsed endnotes tree
endnoteTreeNodes == UNION {nodeSet(endnote_nodes[id]) : id \in DOMAIN endnote_nodes}

\* no note paragraph holds a node of the endnotes tree or of another note paragraph
NoSharedNode ==
    \A k \in 1..Len(note_nodes) :
        /\ nodeSet(note_nodes[k].runs) \cap endnoteTreeNodes = {}
        /\ \A j \in 1..Len(note_nodes) :
              j # k => nodeSet(note_nodes[k].runs) \cap nodeSet(note_nodes[j].runs) = {}

\* the contents of the elements at ids, in this memory
contentsOf(ids, h) == [i \in 1..Len(ids) |-> h[ids[i]]]

\* the step changes the contents of at most one note paragraph and of no
\* note of the endnotes tree
OtherTreesUnchanged ==
    /\ Cardinality({k \in 1..Len(note_nodes) :
                       contentsOf(note_nodes[k].runs, heap')
                           # contentsOf(note_nodes[k].runs, heap)}) <= 1
    /\ \A id \in DOMAIN endnote_nodes :
          contentsOf(endnote_nodes[id], heap') = contentsOf(endnote_nodes[id], heap)

\* C24: no node of a note paragraph of the output body is a node of the parsed
\* endnotes tree or of another note paragraph, also when one note id is cited
\* by two markers; so clearing the endnotes part or editing one note paragraph
\* changes no other tree.
C24_NoteParagraphsOwnTheirRuns ==
    /\ []NoSharedNode
    /\ [][(EditNoteRun \/ ClearEndnoteNodes) =>
              (OtherTreesUnchanged /\ note_nodes' = note_nodes)]_vars

\* a run of one of two note paragraphs written for the same note has been edited
C24_Witness ==
    /\ heap_pc = "edited"
    /\ \E j, k \in 1..Len(note_nodes) :
          /\ j # k
          /\ note_nodes[j].note_id = note_nodes[k].note_id
          /\ content_runs[note_nodes[k].note_id] # <<>>
          /\ contentsOf(note_nodes[j].runs, heap) # contentsOf(note_nodes[k].runs, heap)

(***************************************************************************)
(* The context the scan prepends (SpecDoc)                                 *)
(***************************************************************************)
\* the texts of the paragraphs before 0-based paragraph k, joined with spaces
\* from the nearest one backward until budget characters are collected or no
\* paragraph remains
RECURSIVE walkedBack(_, _, _, _)
walkedBack(paragraphs, i, context, budget) ==
    IF i < 0 \/ Len(context) >= budget THEN context
    ELSE walkedBack(paragraphs, i - 1, paraText(paragraphs[i + 1]) \o <<" ">> \o context,
                    budget)

\* the text of the runs of a paragraph before the run at 0-based run_index
textBeforeRun(para, run_index) ==
    concat([i \in 1..run_index |-> _get_run_text(runsOf(para)[i].run)])

\* C25: for a marker in paragraph k the context prepended to the text before
\* it is at most 200 characters long and is the tail of the space-joined
\* texts of paragraphs k-1, k-2, ... walked backward from the nearest one
\* until 200 characters are collected or no preceding paragraph remains.
C25_ContextWalksBack ==
    dp_pc = "_extract_incipits" =>
        \A r \in 1..Len(references) :
            LET paragraphs == paragraphsOf(document_xml)
                k == references[r].paragraph_index
                collected == walkedBack(paragraphs, k - 1, <<>>, 200)
                context == IF Len(collected) > 200
                           THEN SubSeq(collected, Len(collected) - 199, Len(collected))
                           ELSE collected
            IN  references[r].text_before
                    = context \o textBeforeRun(paragraphs[k + 1], references[r].run_index)

(***************************************************************************)
(* The thought-unit strategy (SpecExtract)                                 *)
(***************************************************************************)
\* the boundaries of a sentence as 0-based positions past its start: every
\* em-dash, colon and comma, and every period that is not within the last
\* characters of the sentence, where its terminator is
boundaryPositions(sentence) ==
    {i - 1 : i \in {j \in 2..Len(sentence) :
                       \/ sentence[j] \in {EmDash, ":", ","}
                       \/ sentence[j] = "." /\ j - 1 <= Len(sentence) - 5}}

\* the boundaries whose prefix has enough words and is no duplicate
qualifyingPositions(sentence, used) ==
    {b \in boundaryPositions(sentence) :
        LET prefix == strip(Slice(sentence, 0, b))
        IN  /\ wordCount(prefix) >= (IF sentence[b + 1] = "," THEN 3 ELSE 2)
            /\ ~_is_duplicate(prefix, used)}

\* C26: the thought-unit strategy returns the prefix of the current sentence
\* that ends just before the earliest boundary (em-dash, colon, comma or
\* interior period) whose prefix has at least 3 words for a comma, at least 2
\* for another boundary, and is not a duplicate of a used phrase; the first
\* words of the sentence are returned only when no boundary qualifies.
C26_EarliestQualifyingBoundary ==
    (ExDone /\ strategy = "thought") =>
        LET sentence == currentSentence(_normalize_text(text_before_ref))
            Q == qualifyingPositions(sentence, used_incipits)
        IN  Q # {} => incipit = _finalize_incipit(strip(Slice(sentence, 0, MinOf(Q))))

\* the sentence before the current one: from the end of the sentence before
\* it, or from the start of the context, to the period that ends it
sentenceBefore(context) ==
    LET M == sentenceMatches(context)
    IN  IF Cardinality(M) > 1 THEN previousSentence(context)
        ELSE strip(Slice(context, 0, MaxOf(M) - 1))

\* C27: when the first words of the current sentence are a duplicate and the
\* context holds a previous sentence, the thought-unit strategy takes the
\* first words of that previous sentence (one sentence back, never further)
\* and returns them when they are not a duplicate; otherwise it returns the
\* duplicate first words of the current sentence.
C27_RetriesPreviousSentence ==
    LET context == _normalize_text(text_before_ref)
        tw == target_words(word_count)
        sentence == currentSentence(context)
        fallback == _extract_first_words(sentence, tw)
        alt_incipit == _extract_first_words(sentenceBefore(context), tw)
    IN  (/\ ExDone /\ strategy = "thought"
         /\ acceptedBoundaries(sentence, used_incipits) = {}
         /\ _is_duplicate(fallback, used_incipits)
         /\ sentenceMatches(context) # {}
         /\ sentenceBefore(context) # <<>>) =>
            incipit = _finalize_incipit(IF ~_is_duplicate(alt_incipit, used_incipits)
                                        THEN alt_incipit ELSE fallback)

(***************************************************************************)
(* The quote strategy on a plain quoted span (SpecExtract)                 *)
(***************************************************************************)
\* the quote strategy returned a plain quoted span: neither the em-dash form
\* nor a split quotation
PlainQuote ==
    /\ ExDone
    /\ strategy = "quote"
    /\ emDashQuote(_normalize_text(text_before_ref)) = None
    /\ splitFirstSegment(_normalize_text(text_before_ref), 1) = None

\* the 1-based places of the last two quote marks of a context
quoteMarks(context) ==
    LET Q == {i \in 1..Len(context) : context[i] = DQ}
    IN  [open |-> MaxOf(Q \ {MaxOf(Q)}), close |-> MaxOf(Q)]

\* the quoted span between them
quotedSpan(context) ==
    strip(SubSeq(context, quoteMarks(context).open + 1, quoteMarks(context).close - 1))

\* the lead-in: from the end of the previous sentence to the opening quote
leadInOf(context) ==
    LET before == SubSeq(context, 1, quoteMarks(context).open - 1)
    IN  strip(From(before, leadInSentenceStart(before)))

\* C28: for a plain quoted span the quote strategy returns the lead-in with
\* the quoted span when the span has at most 2 words or the lead-in has at
\* most 4 words, and the quoted span alone otherwise, the lead-in being the
\* text from the end of the previous sentence to the opening quote.
C28_LeadInRules ==
    PlainQuote =>
        LET context == _normalize_text(text_before_ref)
            span == <<DQ>> \o quotedSpan(context) \o <<DQ>>
            lead_in == leadInOf(context)
            candidate == IF wordCount(quotedSpan(context)) <= 2 \/ wordCount(lead_in) <= 4
                         THEN (IF lead_in = <<>> THEN span ELSE lead_in \o <<" ">> \o span)
                         ELSE span
        IN  incipit = _finalize_incipit(candidate)

\* a plain quoted span of one word after a lead-in of more than four words
C28_Witness ==
    /\ PlainQuote
    /\ wordCount(quotedSpan(_normalize_text(text_before_ref))) <= 2
    /\ wordCount(leadInOf(_normalize_text(text_before_ref))) > 4

(***************************************************************************)
(* What activate_links keeps of a paragraph (SpecLinks)                    *)
(***************************************************************************)
\* the children of the runs of a paragraph that are not text elements, in order
otherChildrenOf(para) ==
    LET runs == runsOf(para)
    IN  concat([i \in 1..Len(runs) |-> keep(runs[i].run.rest, LAMBDA e : e.tag # "t")])

\* the paragraph written has the text and the other run children of the one read
contentKept(read, written) ==
    /\ paraText(written) = paraText(read)
    /\ otherChildrenOf(written) = otherChildrenOf(read)

\* C29: a pass of activate_links preserves content: for every paragraph of
\* the body, endnotes and footnotes parts the concatenation of all its text,
\* the text inside hyperlinks included, is the same before and after, and no
\* child of a rewritten run other than its text (a tab, a break, a citation
\* marker, a second text element) is dropped.
C29_ContentPreserved ==
    [][(ActivateLinks /\ goesThrough(package)) =>
          \A n \in PartNames :
              package[n].present =>
                  /\ Len(paragraphsIn(package'[n].body)) = Len(paragraphsIn(package[n].body))
                  /\ \A p \in 1..Len(paragraphsIn(package[n].body)) :
                        contentKept(paragraphsIn(package[n].body)[p],
                                    paragraphsIn(package'[n].body)[p])]_vars

(***************************************************************************)
(* C30: the ids RelsManager mints                                          *)
(***************************************************************************)
\* the ids of the table the manager was loaded from
existingIds == DOMAIN loaded.relationships

\* the ids minted by the first n calls, in call order: those returned by the
\* first call for each URL that the loaded table held no hyperlink to
RECURSIVE mintedUpTo(_)
mintedUpTo(n) ==
    IF n = 0 THEN <<>>
    ELSE IF /\ hyperlinkIds(loaded, calls[n].url) = {}
            /\ \A j \in 1..(n - 1) : calls[j].url # calls[n].url
         THEN Append(mintedUpTo(n - 1), calls[n].r_id)
         ELSE mintedUpTo(n - 1)

mintedIds == mintedUpTo(Len(calls))

\* the highest number among the existing ids of the form rId<number>, 0 when
\* there is none
highestNumber ==
    LET nums == {e.num : e \in {x \in existingIds : x.name \in {"rId", "rId0"}}}
    IN  IF nums = {} THEN 0 ELSE CHOOSE n \in nums : \A m \in nums : m <= n

\* C30: every relationship id minted by add_hyperlink differs from every id
\* of the table the manager was loaded from and from every other minted id,
\* whatever ids that table holds (rId<number> or not, in any order): the
\* k-th minted id is rId<highest + k>, where highest is the highest number of
\* an existing id of the form rId<number>; and the table that save writes
\* holds no id twice.
C30_MintedIdsAreFresh ==
    rm_pc \in {"open", "saved"} =>
        /\ \A k \in 1..Len(mintedIds) :
              /\ mintedIds[k] = rId(highestNumber + k)
              /\ mintedIds[k] \notin existingIds
        /\ \A j, k \in 1..Len(mintedIds) :
              j # k => mintedIds[j] # mintedIds[k]
        /\ rm_pc = "saved" =>
              /\ \A i, j \in 1..Len(rels_file.table) :
                    i # j => rels_file.table[i].Id # rels_file.table[j].Id
              /\ {rels_file.table[i].Id : i \in 1..Len(rels_file.table)} =
                    existingIds \cup {mintedIds[k] : k \in 1..Len(mintedIds)}

\* C30 witness: a manager loaded from a table that holds rId3 and rId02,
\* saved after it minted two ids.
C30_Witness ==
    /\ rm_pc = "saved"
    /\ Len(mintedIds) = 2
    /\ existingIds = {rId(3), ZeroPaddedRel.Id}
====
